---- MODULE Spec2Model ----
(***************************************************************************)
(* Model of the VoxAula content server core:                               *)
(*   - MetadataService (the persistence store: files, activeJobs,          *)
(*     jobHistory, radio state),                                           *)
(*   - FFmpegService   (the encoding job manager, direct-spawn revision),  *)
(*   - RadioService    (the playback sequencer),                           *)
(*   - JanusService    (the streaming protocol client).                    *)
(*                                                                         *)
(* Every `await` of the JavaScript source is a suspension point: an async  *)
(* function is a record with a pc, and one action runs it from one await   *)
(* to the next.  The synchronous prefix of an async callee (for instance   *)
(* the Object.assign of MetadataService.updateFile, which runs before its  *)
(* own `await this.writeData()`) belongs to the caller's step.             *)
(*                                                                         *)
(* The specifications share the variables:                                 *)
(*   SpecEnc      the encoding job manager under its commands,             *)
(*   SpecCancel   the same with the progress output of the subprocesses,   *)
(*   SpecRestart  encodeFile across restarts, with the startup recovery,   *)
(*   SpecBoot     the startup of the process after a crash,                *)
(*   SpecFailing  playback of tracks that all fail,                        *)
(*   SpecTeardown start and stop commands with the keepalive,              *)
(*   SpecInterval the adaptive interval of the watchers,                   *)
(*   SpecActivity the activity flags of the watchers during an encode,     *)
(*   SpecSession  start and stop with the protocol client,                 *)
(*   SpecPlay     playback after a start,                                  *)
(*   SpecStop     stop during playback, with fairness of its steps,        *)
(*   SpecKeepalive  the keepalive of an established session,               *)
(*   SpecPlaylist   updatePlaylist on a catalog of valid and invalid assets, *)
(*   SpecImport   the full scans of the two directory watchers,            *)
(*   SpecDefer    the incoming watcher while encodes run,                  *)
(*   SpecTrigger  the auto-encode and the batch-encode trigger,            *)
(*   SpecShutdown the shutdown of the server process,                      *)
(*   SpecCatalog  the catalog under addFile and getFileByPath,             *)
(*   SpecScan     overlapping full scans over the catalog as an array,     *)
(*   SpecLoop     the scan loops under start, stop and cleanup.            *)
(***************************************************************************)
EXTENDS Integers, Sequences, FiniteSets, Bags, TLC

(***************************************************************************)
(* Bounds of the model and program constants.                              *)
(***************************************************************************)
\* asset ids present in the catalog
F == {"f1", "f2"}

\* MAX_CONCURRENT_ENCODING default (FFmpegService constructor)
maxConcurrent == 1

\* jobHistory ring size (MetadataService.removeActiveJob)
HistoryLimit == 100

\* encodeFile / retryEncoding / cancelEncoding invocations the environment makes; also
\* its start and stop commands to the watchers
MaxOps == 2

\* process restarts the environment makes
MaxRestarts == 1

\* start / stop / skip commands the environment makes
MaxCmds == 2

\* streaming subprocesses that get spawned
MaxSpawns == 3

\* keepalive failures in a row that are counted
MaxKeepaliveCount == 4

\* entries of the list handed to updatePlaylist
MaxRefs == 3
\* batch-encode commands of the operator in one behaviour of the triggers; scans the
\* operator starts by hand in one behaviour of the scans
MaxBatches == 1

\* records of the catalog in the specifications of addFile, getFileByPath and the scans
MaxFiles == 3

\* RadioService constructor: this.maxConsecutiveSkips
maxConsecutiveSkips == 5

\* JanusService constructor: this.maxKeepaliveFailures
maxKeepaliveFailures == 3

VARIABLES
  \* ---- MetadataService.data
  files,        \* data.files: [F -> asset record]
  jobs,         \* data.activeJobs: sequence of job records
  jobHistory,   \* data.jobHistory: sequence of job records, newest first
  \* ---- FFmpegService
  calls,        \* bag of in-flight async invocations (encodeFile, cancelEncoding, retryEncoding)
  recList,      \* initializeJobRecovery: the incompleteJobs array
  recIdx,       \* initializeJobRecovery: index of the next file of the for loop
  recPc,        \* initializeJobRecovery: "loop" | "done"
  out,          \* what the latest step let out: the events it emitted on the Notification
                \* Bus and the value it returned to the caller of an operation
  \* ---- environment
  ops,          \* operations invoked so far
  restarts,     \* restarts so far
  \* ---- RadioService
  isRunning,    \* this.isRunning
  isStopping,   \* this.isStopping
  ffmpegProcess,\* this.ffmpegProcess: the pid of the ChildProcess it refers to, 0 for null
  currentTrack, \* this.currentTrack: a track id, "none" for null
  playlist,     \* this.playlist: sequence of track ids
  currentIndex, \* this.currentIndex
  skipCount,    \* this.skipCount
  rtpTarget,    \* this.rtpTarget: the session whose RTP details it holds, 0 for null
  radioStatus,  \* data.radio.status of the store
  \* ---- JanusService
  janus,        \* [sessionId, handleId, participantId, rtpDetails, keepaliveTimer,
                \*  keepaliveFailureCount], 0 for null
  \* ---- the streaming subprocesses, the timers and the in-flight radio invocations
  procs,        \* live streaming subprocesses: [pid, handlers, term]
  timers,       \* pending setTimeout(() => this.playNextTrack()) callbacks
  rcalls,       \* bag of in-flight async invocations (start, stop, spawnFFmpegForTrack,
                \* handleTrackError)
  failStreak,   \* history: track failures in a row while playing, with no track played through
  cmds,         \* start / stop / skip commands invoked so far
  spawned,      \* streaming subprocesses spawned so far
  sessions,     \* sessions the gateway created so far
  disk,         \* the tracks whose encoded file is on disk
  \* ---- FileImportService and the two watched directories
  dirs,         \* [D -> the files of the directory with a supported extension, oldest first]
  mon,          \* the watcher state of FileImportService, see NoMonitor
  scans         \* bag of in-flight scans: [kind, dir, pc, list, idx, imported]

encVars == <<files, jobs, jobHistory, calls, recList, recIdx, recPc, out, ops, restarts>>

\* the job manager's part of the state, without the asset records and the output
jobVars == <<jobs, jobHistory, calls, recList, recIdx, recPc, ops, restarts>>

radioVars == <<isRunning, isStopping, ffmpegProcess, currentTrack, playlist, currentIndex,
               skipCount, rtpTarget, radioStatus, janus, procs, timers, rcalls, failStreak,
               cmds, spawned, sessions, disk>>

impVars == <<dirs, mon, scans>>

vars == <<encVars, radioVars, impVars>>

----
(***************************************************************************)
(* MetadataService                                                         *)
(***************************************************************************)
\* addFile: the record a new asset starts with
NewFile ==
  [status |-> "uploaded", progress |-> 0, error |-> "none", retryCount |-> 0, encoded |-> FALSE,
   uploadDate |-> 0]

\* updateFile(fileId, updates): Object.assign(file, updates)
UpdateFile(fs, f, upd) ==
  [fs EXCEPT ![f] = [k \in DOMAIN fs[f] |-> IF k \in DOMAIN upd THEN upd[k] ELSE fs[f][k]]]

\* activeJobs.filter(j => j.fileId !== fileId)
RECURSIVE FilterOut(_, _)
FilterOut(js, f) ==
  IF js = <<>> THEN <<>>
  ELSE IF Head(js).fileId = f THEN FilterOut(Tail(js), f)
       ELSE <<Head(js)>> \o FilterOut(Tail(js), f)

\* addActiveJob that pushes without removing the existing job of the file
AddActiveJobNoFilter(js, f) ==
  Append(js, [fileId |-> f, status |-> "active", progress |-> 0])

\* addActiveJob(jobData): removes any existing job of the file, then pushes
AddActiveJob(js, f) ==
  Append(FilterOut(js, f), [fileId |-> f, status |-> "active", progress |-> 0])

\* findIndex(j => j.fileId === fileId): 0 when absent
JobIndex(js, f) ==
  IF \E i \in 1..Len(js) : js[i].fileId = f
  THEN CHOOSE i \in 1..Len(js) : js[i].fileId = f /\ \A k \in 1..(i-1) : js[k].fileId # f
  ELSE 0

\* updateActiveJob(fileId, updates): Object.assign on the first job of the file
UpdateActiveJob(js, f, upd) ==
  LET i == JobIndex(js, f) IN
  IF i = 0 THEN js
  ELSE [js EXCEPT ![i] = [k \in DOMAIN js[i] |-> IF k \in DOMAIN upd THEN upd[k] ELSE js[i][k]]]

\* removeActiveJob(fileId, reason): the activeJobs list afterwards
RemoveActiveJobList(js, f) ==
  LET i == JobIndex(js, f) IN
  IF i = 0 THEN js
  ELSE SubSeq(js, 1, i-1) \o SubSeq(js, i+1, Len(js))

\* removeActiveJob(fileId, reason): the jobHistory afterwards
RemoveActiveJobHistory(js, hist, f, reason) ==
  LET i == JobIndex(js, f) IN
  IF i = 0 THEN hist
  ELSE LET h == <<[js[i] EXCEPT !.status = reason]>> \o hist IN
       IF Len(h) > HistoryLimit THEN SubSeq(h, 1, HistoryLimit) ELSE h

\* getIncompleteJobs(): files that are 'encoding' and have no active job, in files order
RECURSIVE IncompleteFrom(_, _, _)
IncompleteFrom(order, fs, js) ==
  IF order = <<>> THEN <<>>
  ELSE LET f == Head(order) IN
       IF fs[f].status = "encoding" /\ ~(\E i \in 1..Len(js) : js[i].fileId = f)
       THEN <<f>> \o IncompleteFrom(Tail(order), fs, js)
       ELSE IncompleteFrom(Tail(order), fs, js)

\* the order of data.files
FileOrder == <<"f1", "f2">>

GetIncompleteJobs(fs, js) == IncompleteFrom(FileOrder, fs, js)

----
(***************************************************************************)
(* FFmpegService: the in-flight invocations.                               *)
(*                                                                         *)
(* A call record is [kind, file, pc, inMap].  kind "enc" is one encodeFile *)
(* invocation together with the subprocess it spawns; inMap says that      *)
(* this.activeJobs.get(file).process is that subprocess.  The Map is keyed *)
(* by fileId, so activeJobs.set(file, ..) takes the entry away from any    *)
(* other invocation and activeJobs.delete(file) from all of them.          *)
(***************************************************************************)
Call(kind, f, pc, inMap) == [kind |-> kind, file |-> f, pc |-> pc, inMap |-> inMap]

One(c) == SetToBag({c})

RECURSIVE SumCopies(_, _)
SumCopies(B, S) ==
  IF S = {} THEN 0
  ELSE LET c == CHOOSE x \in S : TRUE IN CopiesIn(c, B) + SumCopies(B, S \ {c})

\* activeJobs.has(fileId)
HasJob(cs, f) == \E c \in BagToSet(cs) : c.file = f /\ c.inMap

\* activeJobs.size
MapSize(cs) == Cardinality({f \in F : HasJob(cs, f)})

\* activeJobs.delete(fileId), seen from the call records
DropEntry(cs, f) ==
  LET S == BagToSet(cs)
      g(c) == IF c.file = f THEN [c EXCEPT !.inMap = FALSE] ELSE c
      T == {g(c) : c \in S}
  IN [r \in T |-> SumCopies(cs, {c \in S : g(c) = r})]

\* the transcode subprocesses that run: the 'spawn' event was delivered, no 'close' event yet,
\* and no cancelEncoding has signalled them
RunningProcs(cs) == {c \in BagToSet(cs) : c.kind = "enc" /\ c.pc = "encoding"}

RunningCount(cs) == SumCopies(cs, RunningProcs(cs))

RunningCountFor(cs, f) == SumCopies(cs, {c \in RunningProcs(cs) : c.file = f})

\* encodeFile, lines 129-137: the precondition checks made before the first await
Rejection(cs, f) ==
  IF HasJob(cs, f) THEN "already"
  ELSE IF MapSize(cs) >= maxConcurrent THEN "limit"
  ELSE "none"

\* encodeFile, catch block: updateFile(fileId, {status: 'failed', error})
CatchUpdate(fs, f, why) == UpdateFile(fs, f, [status |-> "failed", error |-> why])

\* encodeFile(fileId) up to its first await: the files and the new call record
EncodeEntryFiles(fs, cs, f) ==
  IF Rejection(cs, f) # "none" THEN CatchUpdate(fs, f, Rejection(cs, f)) ELSE fs

EncodeEntryCall(cs, f) ==
  IF Rejection(cs, f) # "none" THEN Call("enc", f, "catch1", FALSE)
  ELSE Call("enc", f, "getFile", FALSE)

Replace(cs, c, d) == (cs (-) One(c)) (+) One(d)

\* an event emitted on the Notification Bus, and a value returned by an operation
Ev(type, f) == <<"event", type, f>>

Ret(op, f, val) == <<"return", op, f, val>>

----
(***************************************************************************)
(* FFmpegService.encodeFile (package.json 127-252)                         *)
(***************************************************************************)
\* a caller invokes encodeFile(f): the checks of lines 129-137 run at once
EncodeFile(f) ==
  /\ ops < MaxOps
  /\ ops' = ops + 1
  /\ files' = EncodeEntryFiles(files, calls, f)
  /\ calls' = calls (+) One(EncodeEntryCall(calls, f))
  /\ out' = <<>>
  /\ UNCHANGED <<jobs, jobHistory, recList, recIdx, recPc, restarts, radioVars, impVars>>

\* getFile resolved (139-148): a completed asset is refused, else pathExists is awaited
EncGetFile(c) ==
  /\ c.kind = "enc" /\ c.pc = "getFile"
  /\ IF files[c.file].status = "completed"
     THEN /\ files' = CatchUpdate(files, c.file, "completed")
          /\ calls' = Replace(calls, c, [c EXCEPT !.pc = "catch1"])
     ELSE /\ files' = files
          /\ calls' = Replace(calls, c, [c EXCEPT !.pc = "pathExists"])
  /\ out' = <<>>
  /\ UNCHANGED <<jobs, jobHistory, recList, recIdx, recPc, ops, restarts, radioVars, impVars>>

\* updateFile(fileId, {status: 'encoding', progress: 0, error: null}) (158-162)
EncodingUpdate(fs, f) == UpdateFile(fs, f, [status |-> "encoding", progress |-> 0, error |-> "none"])

\* pathExists resolved (the source file is on disk): status becomes 'encoding'
EncPathExists(c) ==
  /\ c.kind = "enc" /\ c.pc = "pathExists"
  /\ files' = EncodingUpdate(files, c.file)
  /\ calls' = Replace(calls, c, [c EXCEPT !.pc = "updEncoding"])
  /\ out' = <<>>
  /\ UNCHANGED <<jobs, jobHistory, recList, recIdx, recPc, ops, restarts, radioVars, impVars>>

\* the write of updateFile resolved: addActiveJob (165-172)
EncAddJob(c) ==
  /\ c.kind = "enc" /\ c.pc = "updEncoding"
  /\ jobs' = AddActiveJob(jobs, c.file)
  /\ calls' = Replace(calls, c, [c EXCEPT !.pc = "addJob"])
  /\ out' = <<>>
  /\ UNCHANGED <<files, jobHistory, recList, recIdx, recPc, ops, restarts, radioVars, impVars>>

\* the write of addActiveJob resolved; extractMetadata (175, 254-298) awaits parseFile and its
\* own writes, which touch only the asset's metadata and logs; then performDirectEncoding
\* spawns the subprocess and stores it in the Map (326-335)
EncSpawn(c) ==
  /\ c.kind = "enc" /\ c.pc = "addJob"
  /\ calls' = DropEntry(calls (-) One(c), c.file) (+) One([c EXCEPT !.pc = "spawning", !.inMap = TRUE])
  /\ out' = <<>>
  /\ UNCHANGED <<files, jobs, jobHistory, recList, recIdx, recPc, ops, restarts, radioVars, impVars>>

\* 'spawn' event (338-363): updateActiveJob(running), updateProgress(5)
ProcSpawned(c) ==
  /\ c.kind = "enc" /\ c.pc = "spawning"
  /\ jobs' = UpdateActiveJob(jobs, c.file, [status |-> "running", progress |-> 5])
  /\ files' = UpdateFile(files, c.file, [progress |-> 5])
  /\ calls' = Replace(calls, c, [c EXCEPT !.pc = "encoding"])
  /\ out' = <<Ev("encoding-progress", c.file)>>
  /\ UNCHANGED <<jobHistory, recList, recIdx, recPc, ops, restarts, radioVars, impVars>>

\* 'error' event (394-404): the process could not be spawned
ProcError(c) ==
  /\ c.kind = "enc" /\ c.pc = "spawning"
  /\ jobs' = UpdateActiveJob(jobs, c.file, [status |-> "failed"])
  /\ calls' = Replace(calls, c, [c EXCEPT !.pc = "rejecting"])
  /\ out' = <<>>
  /\ UNCHANGED <<files, jobHistory, recList, recIdx, recPc, ops, restarts, radioVars, impVars>>

\* 'close' event with code 0 (407-445, 454-461): fs.stat(outputPath), then an empty
\* output fails the job and any other completes it
ProcCloseZero(c, empty) ==
  /\ c.kind = "enc" /\ c.pc = "encoding"
  /\ IF empty
     THEN /\ jobs' = UpdateActiveJob(jobs, c.file, [status |-> "failed"])
          /\ calls' = Replace(calls, c, [c EXCEPT !.pc = "rejecting"])
     ELSE /\ jobs' = UpdateActiveJob(jobs, c.file, [status |-> "completed", progress |-> 100])
          /\ calls' = Replace(calls, c, [c EXCEPT !.pc = "resolving"])
  /\ out' = <<>>
  /\ UNCHANGED <<files, jobHistory, recList, recIdx, recPc, ops, restarts, radioVars, impVars>>

\* 'close' event with a non-zero code and no SIGTERM (449-461)
ProcCloseFail(c) ==
  /\ c.kind = "enc" /\ c.pc = "encoding"
  /\ jobs' = UpdateActiveJob(jobs, c.file, [status |-> "failed"])
  /\ calls' = Replace(calls, c, [c EXCEPT !.pc = "rejecting"])
  /\ out' = <<>>
  /\ UNCHANGED <<files, jobHistory, recList, recIdx, recPc, ops, restarts, radioVars, impVars>>

\* the promise rejected: the catch block starts (214-225)
EncCatch(c) ==
  /\ c.kind = "enc" /\ c.pc = "rejecting"
  /\ files' = CatchUpdate(files, c.file, "proc")
  /\ calls' = Replace(calls, c, [c EXCEPT !.pc = "catch1"])
  /\ out' = <<>>
  /\ UNCHANGED <<jobs, jobHistory, recList, recIdx, recPc, ops, restarts, radioVars, impVars>>

\* catch block, after updateFile and addLog: removeActiveJob(fileId, 'failed') (237)
EncCatch1(c) ==
  /\ c.kind = "enc" /\ c.pc = "catch1"
  /\ jobs' = RemoveActiveJobList(jobs, c.file)
  /\ jobHistory' = RemoveActiveJobHistory(jobs, jobHistory, c.file, "failed")
  /\ calls' = Replace(calls, c, [c EXCEPT !.pc = "catch2"])
  /\ out' = <<>>
  /\ UNCHANGED <<files, recList, recIdx, recPc, ops, restarts, radioVars, impVars>>

\* catch block end and finally (240-251): emit, rethrow, activeJobs.delete(fileId)
EncCatch2(c) ==
  /\ c.kind = "enc" /\ c.pc = "catch2"
  /\ calls' = DropEntry(calls (-) One(c), c.file)
  /\ out' = <<Ev("encoding-failed", c.file)>>
  /\ UNCHANGED <<files, jobs, jobHistory, recList, recIdx, recPc, ops, restarts, radioVars, impVars>>

\* the promise resolved (181-186): updateFile(completed)
EncResolve(c) ==
  /\ c.kind = "enc" /\ c.pc = "resolving"
  /\ files' = UpdateFile(files, c.file,
                [status |-> "completed", progress |-> 100, encoded |-> TRUE, error |-> "none"])
  /\ calls' = Replace(calls, c, [c EXCEPT !.pc = "complete1"])
  /\ out' = <<>>
  /\ UNCHANGED <<jobs, jobHistory, recList, recIdx, recPc, ops, restarts, radioVars, impVars>>

\* after updateFile and addLog: removeActiveJob(fileId, 'completed') (198)
EncComplete1(c) ==
  /\ c.kind = "enc" /\ c.pc = "complete1"
  /\ jobs' = RemoveActiveJobList(jobs, c.file)
  /\ jobHistory' = RemoveActiveJobHistory(jobs, jobHistory, c.file, "completed")
  /\ calls' = Replace(calls, c, [c EXCEPT !.pc = "complete2"])
  /\ out' = <<>>
  /\ UNCHANGED <<files, recList, recIdx, recPc, ops, restarts, radioVars, impVars>>

\* emit encoding-completed, return, finally activeJobs.delete(fileId) (201-212, 249-251)
EncComplete2(c) ==
  /\ c.kind = "enc" /\ c.pc = "complete2"
  /\ calls' = DropEntry(calls (-) One(c), c.file)
  /\ out' = <<Ev("encoding-completed", c.file)>>
  /\ UNCHANGED <<files, jobs, jobHistory, recList, recIdx, recPc, ops, restarts, radioVars, impVars>>

----
(***************************************************************************)
(* FFmpegService.cancelEncoding (package.json 526-575)                     *)
(***************************************************************************)
\* the test of line 528: an entry of the Map with a process
CancelFinds(cs, f) == HasJob(cs, f)

\* removeAllListeners, kill('SIGTERM') and activeJobs.delete (532-543) on the Map's process
CancelKill(cs, f) ==
  LET t == CHOOSE c \in BagToSet(cs) : c.file = f /\ c.inMap IN
  IF t.pc \in {"spawning", "encoding"}
  THEN Replace(cs, t, [t EXCEPT !.pc = "cancelled", !.inMap = FALSE])
  ELSE Replace(cs, t, [t EXCEPT !.inMap = FALSE])

\* cancelEncoding that marks the persisted job before looking at the Map
CancelJobsUnguarded(cs, js, f) == UpdateActiveJob(js, f, [status |-> "cancelled"])

\* cancelEncoding, the persisted job list after its synchronous part (528, 546-549)
CancelJobs(cs, js, f) ==
  IF CancelFinds(cs, f) THEN UpdateActiveJob(js, f, [status |-> "cancelled"]) ELSE js

\* a caller invokes cancelEncoding(f)
CancelEncoding(f) ==
  /\ ops < MaxOps
  /\ ops' = ops + 1
  /\ IF CancelFinds(calls, f)
     THEN /\ calls' = CancelKill(calls, f) (+) One(Call("cancel", f, "x1", FALSE))
          /\ out' = <<>>
     ELSE /\ calls' = calls
          /\ out' = <<Ret("cancelEncoding", f, FALSE)>>
  /\ jobs' = CancelJobs(calls, jobs, f)
  /\ UNCHANGED <<files, jobHistory, recList, recIdx, recPc, restarts, radioVars, impVars>>

\* the write of updateActiveJob resolved: updateFile(uploaded, 0, cancellation note) (551-558)
CancelStep1(c) ==
  /\ c.kind = "cancel" /\ c.pc = "x1"
  /\ files' = UpdateFile(files, c.file, [status |-> "uploaded", progress |-> 0, error |-> "cancelled"])
  /\ calls' = Replace(calls, c, [c EXCEPT !.pc = "x2"])
  /\ out' = <<>>
  /\ UNCHANGED <<jobs, jobHistory, recList, recIdx, recPc, ops, restarts, radioVars, impVars>>

\* after updateFile and addLog: removeActiveJob(fileId, 'cancelled') (566)
CancelStep2(c) ==
  /\ c.kind = "cancel" /\ c.pc = "x2"
  /\ jobs' = RemoveActiveJobList(jobs, c.file)
  /\ jobHistory' = RemoveActiveJobHistory(jobs, jobHistory, c.file, "cancelled")
  /\ calls' = Replace(calls, c, [c EXCEPT !.pc = "x3"])
  /\ out' = <<>>
  /\ UNCHANGED <<files, recList, recIdx, recPc, ops, restarts, radioVars, impVars>>

\* emit encoding-cancelled and return true (568-571)
CancelStep3(c) ==
  /\ c.kind = "cancel" /\ c.pc = "x3"
  /\ calls' = calls (-) One(c)
  /\ out' = <<Ev("encoding-cancelled", c.file), Ret("cancelEncoding", c.file, TRUE)>>
  /\ UNCHANGED <<files, jobs, jobHistory, recList, recIdx, recPc, ops, restarts, radioVars, impVars>>

\* the cancelled subprocess exits (SIGTERM, or SIGKILL after 5 s); its listeners are gone,
\* so the promise of performDirectEncoding is never settled
ProcDie(c) ==
  /\ c.kind = "enc" /\ c.pc = "cancelled"
  /\ calls' = calls (-) One(c)
  /\ out' = <<>>
  /\ UNCHANGED <<files, jobs, jobHistory, recList, recIdx, recPc, ops, restarts, radioVars, impVars>>

----
(***************************************************************************)
(* The stderr 'data' handler of performDirectEncoding (package.json        *)
(* 365-391) with updateProgress (479-494).  cancelEncoding removes the     *)
(* listeners of the ChildProcess (532); the handler is a listener of its   *)
(* stderr stream and stays, so the output a signalled subprocess still     *)
(* writes is handled like any other.                                       *)
(***************************************************************************)
\* the percentage the handler computes from a time= line, between 5 and 95 (381)
ProgressSeen == 50

\* a time= line of a live subprocess arrives and the duration of the asset is known
\* (367-382): updateProgress makes its updateFile and awaits the write; one handler at a
\* time is followed
ProcStderr(c) ==
  /\ c.kind = "enc" /\ c.pc \in {"encoding", "cancelled"}
  /\ \A x \in BagToSet(calls) : x.kind # "progress"
  /\ files' = UpdateFile(files, c.file, [progress |-> ProgressSeen])
  /\ calls' = calls (+) One(Call("progress", c.file, "u1", FALSE))
  /\ out' = <<>>
  /\ UNCHANGED <<jobs, jobHistory, recList, recIdx, recPc, ops, restarts, radioVars, impVars>>

\* the write of updateFile resolved: updateActiveJob(fileId, {progress}) (482-485)
ProgressSaved(c) ==
  /\ c.kind = "progress" /\ c.pc = "u1"
  /\ jobs' = UpdateActiveJob(jobs, c.file, [progress |-> ProgressSeen])
  /\ calls' = Replace(calls, c, [c EXCEPT !.pc = "u2"])
  /\ out' = <<>>
  /\ UNCHANGED <<files, jobHistory, recList, recIdx, recPc, ops, restarts, radioVars, impVars>>

\* emit encoding-progress (488-491)
ProgressEmit(c) ==
  /\ c.kind = "progress" /\ c.pc = "u2"
  /\ calls' = calls (-) One(c)
  /\ out' = <<Ev("encoding-progress", c.file)>>
  /\ UNCHANGED <<files, jobs, jobHistory, recList, recIdx, recPc, ops, restarts, radioVars,
                 impVars>>

----
(***************************************************************************)
(* FFmpegService.retryEncoding (package.json 600-627)                      *)
(***************************************************************************)
\* a retry that resets the asset without counting
RetryUpdateNoCount(fs, f) ==
  UpdateFile(fs, f, [status |-> "uploaded", progress |-> 0, error |-> "none"])

\* updateFile(fileId, {status: 'uploaded', progress: 0, error: null, retryCount + 1})
\* (613-618)
RetryUpdate(fs, f) ==
  UpdateFile(fs, f, [status |-> "uploaded", progress |-> 0, error |-> "none",
                     retryCount |-> fs[f].retryCount + 1])

\* a caller invokes retryEncoding(f): getFile is awaited
RetryEncoding(f) ==
  /\ ops < MaxOps
  /\ ops' = ops + 1
  /\ calls' = calls (+) One(Call("retry", f, "r0", FALSE))
  /\ out' = <<>>
  /\ UNCHANGED <<files, jobs, jobHistory, recList, recIdx, recPc, restarts, radioVars, impVars>>

\* getFile resolved (602-618): refused while 'encoding', else reset and count the retry
RetryStep0(c) ==
  /\ c.kind = "retry" /\ c.pc = "r0"
  /\ IF files[c.file].status = "encoding"
     THEN /\ files' = files
          /\ calls' = calls (-) One(c)
     ELSE /\ files' = RetryUpdate(files, c.file)
          /\ calls' = Replace(calls, c, [c EXCEPT !.pc = "r1"])
  /\ out' = <<>>
  /\ UNCHANGED <<jobs, jobHistory, recList, recIdx, recPc, ops, restarts, radioVars, impVars>>

\* after updateFile and addLog: return this.encodeFile(fileId) (626)
RetryStep1(c) ==
  /\ c.kind = "retry" /\ c.pc = "r1"
  /\ files' = EncodeEntryFiles(files, calls, c.file)
  /\ calls' = (calls (-) One(c)) (+) One(EncodeEntryCall(calls, c.file))
  /\ out' = <<>>
  /\ UNCHANGED <<jobs, jobHistory, recList, recIdx, recPc, ops, restarts, radioVars, impVars>>

----
(***************************************************************************)
(* Restart and FFmpegService.initializeJobRecovery (package.json 73-125)   *)
(***************************************************************************)
\* a recovery that resets status and progress and leaves the error field alone
RecoveryUpdateNoNote(fs, f) == UpdateFile(fs, f, [status |-> "uploaded", progress |-> 0])

\* updateFile(file.id, {status: 'uploaded', progress: 0, error: {...restart...}}) (85-93)
RecoveryUpdate(fs, f) == UpdateFile(fs, f, [status |-> "uploaded", progress |-> 0, error |-> "reset"])

\* the process dies and is started again: the store survives, the memory of FFmpegService
\* does not; the constructor calls initializeJobRecovery, which reads getIncompleteJobs at once
Restart ==
  /\ restarts < MaxRestarts
  /\ restarts' = restarts + 1
  /\ calls' = EmptyBag
  /\ recList' = GetIncompleteJobs(files, jobs)
  /\ recIdx' = 1
  /\ recPc' = "loop"
  /\ out' = <<>>
  /\ UNCHANGED <<files, jobs, jobHistory, ops, radioVars, impVars>>

\* one iteration of the for loop (84-108)
RecoveryReset ==
  /\ recPc = "loop" /\ recIdx <= Len(recList)
  /\ files' = RecoveryUpdate(files, recList[recIdx])
  /\ recIdx' = recIdx + 1
  /\ out' = <<>>
  /\ UNCHANGED <<jobs, jobHistory, calls, recList, recPc, ops, restarts, radioVars, impVars>>

\* after the loop (111-121): one encoding-reset event per file of the list
RecoveryEmit ==
  /\ recPc = "loop" /\ recIdx > Len(recList)
  /\ recPc' = "done"
  /\ out' = [i \in 1..Len(recList) |-> Ev("encoding-reset", recList[i])]
  /\ UNCHANGED <<files, jobs, jobHistory, calls, recList, recIdx, ops, restarts, radioVars, impVars>>

----
(***************************************************************************)
(* JanusService and RadioService: the in-flight invocations.               *)
(*                                                                         *)
(* A radio call record is [kind, pc, track, sid, why, sent, held]: kind    *)
(* "start" | "stop" | "spawn" (spawnFFmpegForTrack) | "hte"                *)
(* (handleTrackError); sid the session a start created; why the reason a   *)
(* start or stop fails with; held and sent what JanusService.cleanup found *)
(* at its entry and the requests it has attempted.  A continuation that    *)
(* follows an await of an already settled promise (the return of an async  *)
(* function, getRadioConfig, getFiles) runs in the same turn of the event  *)
(* loop and belongs to the step that settles it.                           *)
(***************************************************************************)
RC(kind, pc, track) ==
  [kind |-> kind, pc |-> pc, track |-> track, sid |-> 0, why |-> "none", sent |-> {},
   held |-> "none"]

\* a request sent to the gateway
Req(kind) == <<"request", kind>>

\* the outcome of a JanusService.cleanup: what it found and what it attempted
Cleaned(c) == <<"cleanup", c.kind, c.why, c.held, c.sent>>

\* a cleanup that leaves the keepalive timer running
StopKeepaliveNot(j) == j

\* JanusService.stopKeepalive (137-143)
StopKeepalive(j) == [j EXCEPT !.keepaliveTimer = FALSE]

\* a finally block that keeps the count of the keepalive failures
ClearIdsKeepCount(j) ==
  [j EXCEPT !.sessionId = 0, !.handleId = 0, !.participantId = 0, !.rtpDetails = 0]

\* a finally block that leaves the session id set
ClearIdsKeepSession(j) ==
  [j EXCEPT !.handleId = 0, !.participantId = 0, !.rtpDetails = 0, !.keepaliveFailureCount = 0]

\* JanusService.cleanup, finally block (495-502)
ClearIds(j) ==
  [j EXCEPT !.sessionId = 0, !.handleId = 0, !.participantId = 0, !.rtpDetails = 0,
            !.keepaliveFailureCount = 0]

\* JanusService.constructor
NoSession ==
  [sessionId |-> 0, handleId |-> 0, participantId |-> 0, rtpDetails |-> 0,
   keepaliveTimer |-> FALSE, keepaliveFailureCount |-> 0]

\* what the instance holds: getStatus (444-454)
Held(j) ==
  IF j.sessionId # 0 /\ j.handleId # 0 /\ j.participantId # 0 THEN "joined"
  ELSE IF j.sessionId # 0 /\ j.handleId # 0 THEN "session"
  ELSE "none"

\* a cleanup that sends nothing for a session that was not joined
CleanupFirstNoDestroy(j) ==
  IF j.sessionId # 0 /\ j.handleId # 0 /\ j.participantId # 0 THEN "leave" ELSE "none"

\* JanusService.cleanup (464-468, 482): the first request it sends
CleanupFirst(j) ==
  IF j.sessionId # 0 /\ j.handleId # 0
  THEN (IF j.participantId # 0 THEN "leave" ELSE "destroy")
  ELSE "none"

\* RadioService.start after the cleanup of a failed start: return {success: false} (79, 88)
StartReturnsFailure(c, rc) ==
  /\ rcalls' = rc
  /\ out' = <<Cleaned(c), Ret("start", c.why, FALSE)>>
  /\ UNCHANGED <<isRunning, isStopping, rtpTarget, currentTrack, radioStatus>>

\* a stop that leaves the flags and the status as they are after the teardown
StopFinalKeepsStopping(c, rc) ==
  /\ rtpTarget' = 0
  /\ currentTrack' = "none"
  /\ rcalls' = rc (+) One([c EXCEPT !.pc = "w2"])
  /\ out' = <<Cleaned(c)>>
  /\ UNCHANGED <<isRunning, isStopping, radioStatus>>

\* RadioService.stop after the teardown (174-190): clears the target, the track and the
\* flags, and writes status 'stopped'
StopFinal(c, rc) ==
  /\ rtpTarget' = 0
  /\ currentTrack' = "none"
  /\ isStopping' = FALSE
  /\ isRunning' = FALSE
  /\ radioStatus' = "stopped"
  /\ rcalls' = rc (+) One([c EXCEPT !.pc = "w2"])
  /\ out' = <<Cleaned(c)>>

\* the caller of JanusService.cleanup goes on
AfterCleanup(c, rc) ==
  IF c.kind = "stop" THEN StopFinal(c, rc) ELSE StartReturnsFailure(c, rc)

\* the invocation c0 calls JanusService.cleanup (459-503): stopKeepalive, then the first
\* request; with nothing held the finally block runs at once and the caller goes on
BeginCleanup(c0, why) ==
  LET c == [c0 EXCEPT !.why = why, !.held = Held(janus)]
      first == CleanupFirst(janus)
      rc == rcalls (-) One(c0)
  IN  IF first = "none"
      THEN /\ janus' = ClearIds(StopKeepalive(janus))
           /\ AfterCleanup(c, rc)
      ELSE /\ janus' = StopKeepalive(janus)
           /\ rcalls' = rc (+) One([c EXCEPT !.pc = first, !.sent = {first}])
           /\ out' = <<Req(first)>>
           /\ UNCHANGED <<isRunning, isStopping, rtpTarget, currentTrack, radioStatus>>

\* the leave request settled, with or without an error (468-479): destroy is sent
CleanupLeaveDone(c) ==
  /\ c.pc = "leave"
  /\ rcalls' = Replace(rcalls, c, [c EXCEPT !.pc = "destroy", !.sent = @ \cup {"destroy"}])
  /\ out' = <<Req("destroy")>>
  /\ UNCHANGED <<files, jobVars, impVars, isRunning, isStopping, ffmpegProcess, currentTrack, playlist,
                 currentIndex, skipCount, rtpTarget, radioStatus, janus, procs, timers,
                 failStreak, cmds, spawned, sessions, disk>>

\* the destroy request settled, with or without an error (482-502): the finally block
\* clears the identifiers and the caller goes on
CleanupDestroyDone(c) ==
  /\ c.pc = "destroy"
  /\ janus' = ClearIds(janus)
  /\ AfterCleanup(c, rcalls (-) One(c))
  /\ UNCHANGED <<files, jobVars, impVars, ffmpegProcess, playlist, currentIndex, skipCount, procs,
                 timers, failStreak, cmds, spawned, sessions, disk>>

(***************************************************************************)
(* RadioService.stop (RadioService.js 132-216)                             *)
(***************************************************************************)
\* stop() up to its first await (134-150): the flags, the 'stopping' status
StopEntry(rc) ==
  /\ isStopping' = TRUE
  /\ isRunning' = FALSE
  /\ radioStatus' = "stopping"
  /\ rcalls' = rc (+) One(RC("stop", "w1", "none"))

\* the test of line 134
StopRefused == ~isRunning /\ ~isStopping

\* a caller invokes stop()
Stop ==
  /\ cmds' = cmds + 1
  /\ IF StopRefused
     THEN /\ out' = <<Ret("stop", "notrunning", FALSE)>>
          /\ UNCHANGED <<isRunning, isStopping, radioStatus, rcalls>>
     ELSE /\ StopEntry(rcalls)
          /\ out' = <<>>
  /\ UNCHANGED <<files, jobVars, impVars, ffmpegProcess, currentTrack, playlist, currentIndex,
                 skipCount, rtpTarget, janus, procs, timers, failStreak, spawned, sessions, disk>>

\* kill('SIGTERM') on the process this.ffmpegProcess refers to
Signal(ps, pid, unhook) ==
  {IF p.pid = pid
   THEN [p EXCEPT !.term = TRUE, !.handlers = IF unhook THEN <<>> ELSE @]
   ELSE p : p \in ps}

\* stop(), catch block (200-212): the flags are cleared and 'stopped' is written
StopCatch(c) ==
  /\ isStopping' = FALSE
  /\ isRunning' = FALSE
  /\ radioStatus' = "stopped"
  /\ rcalls' = Replace(rcalls, c, [c EXCEPT !.pc = "w3", !.why = "write"])
  /\ out' = <<>>

\* the write of the 'stopping' status settled (146-173): the listeners of the current
\* subprocess are removed and it is signalled, then the session is torn down; a failed
\* write goes to the catch block
StopW1(c, ok) ==
  /\ c.kind = "stop" /\ c.pc = "w1"
  /\ IF ok
     THEN /\ ffmpegProcess' = 0
          /\ procs' = Signal(procs, ffmpegProcess, TRUE)
          /\ BeginCleanup(c, c.why)
     ELSE /\ StopCatch(c)
          /\ UNCHANGED <<ffmpegProcess, procs, janus, rtpTarget, currentTrack>>
  /\ UNCHANGED <<files, jobVars, impVars, playlist, currentIndex, skipCount, timers, failStreak, cmds,
                 spawned, sessions, disk>>

\* the write of the 'stopped' status settled (184-198): radio-stopped is emitted; a failed
\* write goes to the catch block
StopW2(c, ok) ==
  /\ c.kind = "stop" /\ c.pc = "w2"
  /\ IF ok
     THEN /\ rcalls' = rcalls (-) One(c)
          /\ out' = <<Ev("radio-stopped", "none"), Ret("stop", "ok", TRUE)>>
          /\ UNCHANGED <<isRunning, isStopping, radioStatus>>
     ELSE StopCatch(c)
  /\ UNCHANGED <<files, jobVars, impVars, ffmpegProcess, currentTrack, playlist, currentIndex,
                 skipCount, rtpTarget, janus, procs, timers, failStreak, cmds, spawned,
                 sessions, disk>>

\* the write of the catch block settled (207-214): stop returns {success: false}, or
\* rejects when that write failed too
StopW3(c, ok) ==
  /\ c.kind = "stop" /\ c.pc = "w3"
  /\ rcalls' = rcalls (-) One(c)
  /\ out' = IF ok THEN <<Ret("stop", "failed", FALSE)>> ELSE <<Ret("stop", "rejected", FALSE)>>
  /\ UNCHANGED <<files, jobVars, impVars, isRunning, isStopping, ffmpegProcess, currentTrack, playlist,
                 currentIndex, skipCount, rtpTarget, radioStatus, janus, procs, timers,
                 failStreak, cmds, spawned, sessions, disk>>

(***************************************************************************)
(* RadioService.playNextTrack, spawnFFmpegForTrack, handlers               *)
(* (RadioService.js 347-544)                                               *)
(***************************************************************************)
\* a playNextTrack that wraps the index and keeps the skip counter
PlayNextTrackKeepsSkips(rc) ==
  IF isStopping \/ ~isRunning
  THEN /\ rcalls' = rc
       /\ UNCHANGED <<isRunning, isStopping, radioStatus, skipCount, currentIndex>>
  ELSE IF skipCount >= maxConsecutiveSkips \/ Len(playlist) = 0
  THEN /\ StopEntry(rc)
       /\ UNCHANGED <<skipCount, currentIndex>>
  ELSE LET idx == IF currentIndex >= Len(playlist) THEN 0 ELSE currentIndex
       IN  /\ currentIndex' = idx + 1
           /\ rcalls' = rc (+) One(RC("spawn", "exists", playlist[idx + 1]))
           /\ UNCHANGED <<isRunning, isStopping, radioStatus, skipCount>>

\* playNextTrack() (347-383), called with the in-flight invocations rc: it returns, or
\* calls stop(), or takes the next track (wrapping resets skipCount) and calls
\* spawnFFmpegForTrack, which awaits pathExists
PlayNextTrack(rc) ==
  IF isStopping \/ ~isRunning
  THEN /\ rcalls' = rc
       /\ UNCHANGED <<isRunning, isStopping, radioStatus, skipCount, currentIndex>>
  ELSE IF skipCount >= maxConsecutiveSkips \/ Len(playlist) = 0
  THEN /\ StopEntry(rc)
       /\ UNCHANGED <<skipCount, currentIndex>>
  ELSE LET wrap == currentIndex >= Len(playlist)
           idx == IF wrap THEN 0 ELSE currentIndex
       IN  /\ currentIndex' = idx + 1
           /\ skipCount' = IF wrap THEN 0 ELSE skipCount
           /\ rcalls' = rc (+) One(RC("spawn", "exists", playlist[idx + 1]))
           /\ UNCHANGED <<isRunning, isStopping, radioStatus>>

\* a timer set by the 'close' handler (491) or by handleTrackError (536) fires
TimerFire ==
  /\ timers > 0
  /\ timers' = timers - 1
  /\ PlayNextTrack(rcalls)
  /\ out' = <<>>
  /\ UNCHANGED <<files, jobVars, impVars, ffmpegProcess, currentTrack, playlist, rtpTarget, janus,
                 procs, failStreak, cmds, spawned, sessions, disk>>

\* the test of line 223
SkipRefused == ~isRunning

\* a caller invokes skip() (221-243): the current subprocess is signalled, or with none
\* playNextTrack is called directly
Skip ==
  /\ cmds' = cmds + 1
  /\ IF SkipRefused
     THEN /\ out' = <<Ret("skip", "notrunning", FALSE)>>
          /\ UNCHANGED <<procs, rcalls, isRunning, isStopping, radioStatus, skipCount,
                         currentIndex>>
     ELSE /\ out' = <<Ret("skip", "ok", TRUE)>>
          /\ IF ffmpegProcess # 0
             THEN /\ procs' = Signal(procs, ffmpegProcess, FALSE)
                  /\ UNCHANGED <<rcalls, isRunning, isStopping, radioStatus, skipCount,
                                 currentIndex>>
             ELSE /\ PlayNextTrack(rcalls)
                  /\ UNCHANGED procs
  /\ UNCHANGED <<files, jobVars, impVars, ffmpegProcess, currentTrack, playlist, rtpTarget, janus,
                 timers, failStreak, spawned, sessions, disk>>

\* the failures in a row, counted while the sequencer plays
Streak(n) ==
  IF isRunning /\ ~isStopping
  THEN (IF n > maxConsecutiveSkips THEN n ELSE n + 1)
  ELSE n

\* updateFile(track.id, {status: 'failed', error}) of handleTrackError (519-525) and of
\* refreshPlaylist (305-311)
TrackFailed(fs, f) == UpdateFile(fs, f, [status |-> "failed", error |-> "radio"])

\* handleTrackError(track) up to its await (509-525): skipCount++, the asset is marked
RECURSIVE HandleTrackError(_, _, _)
HandleTrackError(tracks, fs, rc) ==
  IF tracks = <<>> THEN <<fs, rc>>
  ELSE HandleTrackError(Tail(tracks), TrackFailed(fs, Head(tracks)),
                        rc (+) One(RC("hte", "upd", Head(tracks))))

\* pathExists(track.encodedPath) resolved (391-435): a missing file or a missing target
\* is a track error; else the subprocess is spawned, skipCount is reset and status
\* 'playing' is written
SpawnExists(c) ==
  /\ c.kind = "spawn" /\ c.pc = "exists"
  /\ IF c.track \notin disk \/ rtpTarget = 0
     THEN LET r == HandleTrackError(<<c.track>>, files, rcalls (-) One(c))
          IN  /\ files' = r[1]
              /\ rcalls' = r[2]
              /\ skipCount' = skipCount + 1
              /\ failStreak' = Streak(failStreak)
              /\ UNCHANGED <<ffmpegProcess, currentTrack, procs, spawned, radioStatus>>
     ELSE /\ spawned' = spawned + 1
          /\ procs' = procs \cup {[pid |-> spawned + 1, handlers |-> <<>>, term |-> FALSE]}
          /\ ffmpegProcess' = spawned + 1
          /\ currentTrack' = c.track
          /\ skipCount' = 0
          /\ radioStatus' = "playing"
          /\ rcalls' = Replace(rcalls, c, [c EXCEPT !.pc = "saved"])
          /\ UNCHANGED <<files, failStreak>>
  /\ out' = <<>>
  /\ UNCHANGED <<jobVars, impVars, isRunning, isStopping, playlist, currentIndex, rtpTarget, janus,
                 timers, cmds, sessions, disk>>

\* the write of the 'playing' status resolved (437-446): radio-track-changed is emitted and
\* setupFFmpegHandlers (457-504) attaches this track's handlers to whatever
\* this.ffmpegProcess refers to now
SpawnSaved(c) ==
  /\ c.kind = "spawn" /\ c.pc = "saved"
  /\ procs' = {IF p.pid = ffmpegProcess THEN [p EXCEPT !.handlers = Append(@, c.track)] ELSE p :
               p \in procs}
  /\ rcalls' = rcalls (-) One(c)
  /\ out' = <<Ev("radio-track-changed", c.track)>>
  /\ UNCHANGED <<files, jobVars, impVars, isRunning, isStopping, ffmpegProcess, currentTrack, playlist,
                 currentIndex, skipCount, rtpTarget, radioStatus, janus, timers, failStreak,
                 cmds, spawned, sessions, disk>>

\* the exits a subprocess can make: played through (code 0), failed (code not 0), or
\* ended by the SIGTERM it was sent; ffmpeg may also answer SIGTERM by exiting with a
\* non-zero code itself
Exits(p) == IF p.term THEN {"sigterm", "abnormal"} ELSE {"natural", "abnormal"}

\* a subprocess exits: 'exit' handlers (498-503) call handleTrackError for a non-zero code
\* without SIGTERM, 'close' handlers (477-495) clear this.ffmpegProcess and set the timer;
\* a subprocess without handlers goes unnoticed
ProcExit(p, how) ==
  /\ p \in procs /\ how \in Exits(p)
  /\ procs' = procs \ {p}
  /\ LET n == Len(p.handlers)
         r == IF how = "abnormal" THEN HandleTrackError(p.handlers, files, rcalls)
              ELSE <<files, rcalls>>
     IN  /\ files' = r[1]
         /\ rcalls' = r[2]
         /\ skipCount' = IF how = "abnormal" THEN skipCount + n ELSE skipCount
         /\ failStreak' = IF n = 0 THEN failStreak
                          ELSE IF how = "abnormal" THEN Streak(failStreak)
                          ELSE 0
         /\ ffmpegProcess' = IF n > 0 THEN 0 ELSE ffmpegProcess
         /\ timers' = IF isRunning /\ ~isStopping THEN timers + n ELSE timers
  /\ out' = <<>>
  /\ UNCHANGED <<jobVars, impVars, isRunning, isStopping, currentTrack, playlist, currentIndex,
                 rtpTarget, radioStatus, janus, cmds, spawned, sessions, disk>>

\* the write of handleTrackError resolved (527-539): radio-track-error is emitted and the
\* timer for the next track is set while the sequencer runs
HteDone(c) ==
  /\ c.kind = "hte" /\ c.pc = "upd"
  /\ rcalls' = rcalls (-) One(c)
  /\ timers' = IF isRunning /\ ~isStopping THEN timers + 1 ELSE timers
  /\ out' = <<Ev("radio-track-error", c.track)>>
  /\ UNCHANGED <<files, jobVars, impVars, isRunning, isStopping, ffmpegProcess, currentTrack, playlist,
                 currentIndex, skipCount, rtpTarget, radioStatus, janus, procs, failStreak,
                 cmds, spawned, sessions, disk>>

(***************************************************************************)
(* RadioService.start (RadioService.js 64-127) with                        *)
(* JanusService.establishSession (part_005 148-432)                        *)
(***************************************************************************)
\* a start that is never refused
StartRefusedNever == FALSE

\* the test of line 66
StartRefused == isRunning

\* a caller invokes start(): refused while running, else establishSession sends the
\* create request
Start ==
  /\ cmds' = cmds + 1
  /\ IF StartRefused
     THEN /\ out' = <<Ret("start", "running", FALSE)>>
          /\ UNCHANGED rcalls
     ELSE /\ out' = <<Req("create")>>
          /\ rcalls' = rcalls (+) One(RC("start", "create", "none"))
  /\ UNCHANGED <<files, jobVars, impVars, isRunning, isStopping, ffmpegProcess, currentTrack, playlist,
                 currentIndex, skipCount, rtpTarget, radioStatus, janus, procs, timers,
                 failStreak, spawned, sessions, disk>>

\* the create request settled (190-214, 219-230): the session id is kept and attach is
\* sent; a failure goes to the cleanup of establishSession's catch block (176-184)
StartCreated(c, ok) ==
  /\ c.kind = "start" /\ c.pc = "create"
  /\ IF ok
     THEN /\ sessions' = sessions + 1
          /\ janus' = [janus EXCEPT !.sessionId = sessions + 1]
          /\ rcalls' = Replace(rcalls, c, [c EXCEPT !.pc = "attach", !.sid = sessions + 1])
          /\ out' = <<Req("attach")>>
          /\ UNCHANGED <<isRunning, isStopping, rtpTarget, currentTrack, radioStatus>>
     ELSE /\ BeginCleanup(c, "create")
          /\ UNCHANGED sessions
  /\ UNCHANGED <<files, jobVars, impVars, ffmpegProcess, playlist, currentIndex, skipCount, procs,
                 timers, failStreak, cmds, spawned, disk>>

\* the attach request settled (232-244, 249-294): the handle id is kept and join is sent
StartAttached(c, ok) ==
  /\ c.kind = "start" /\ c.pc = "attach"
  /\ IF ok
     THEN /\ janus' = [janus EXCEPT !.handleId = c.sid]
          /\ rcalls' = Replace(rcalls, c, [c EXCEPT !.pc = "join"])
          /\ out' = <<Req("join")>>
          /\ UNCHANGED <<isRunning, isStopping, rtpTarget, currentTrack, radioStatus>>
     ELSE BeginCleanup(c, "attach")
  /\ UNCHANGED <<files, jobVars, impVars, ffmpegProcess, playlist, currentIndex, skipCount, procs,
                 timers, failStreak, cmds, spawned, sessions, disk>>

\* joinRoom returned (165-174; RadioService 75-83): startKeepalive, this.rtpTarget takes
\* the RTP details of the instance as it is now (j), refreshPlaylist starts
Established(c, j) ==
  /\ janus' = [j EXCEPT !.keepaliveTimer = TRUE]
  /\ rtpTarget' = j.rtpDetails
  /\ rcalls' = Replace(rcalls, c, [c EXCEPT !.pc = "refresh"])
  /\ out' = <<>>
  /\ UNCHANGED <<isRunning, isStopping, currentTrack, radioStatus>>

\* the participant id and the RTP details of a 'joined' event (310-318, 338-344)
Joined(j, sid) == [j EXCEPT !.participantId = sid, !.rtpDetails = sid]

\* the responses to the join request (302-365): an ack, an event that says joined, an
\* event that says neither joined nor error, or an error
JoinResponses == {"ack", "joined", "other", "error"}

\* the join request settled (296-381)
StartJoinResp(c, r) ==
  /\ c.kind = "start" /\ c.pc = "join" /\ r \in JoinResponses
  /\ IF r = "ack"
     THEN /\ rcalls' = Replace(rcalls, c, [c EXCEPT !.pc = "poll"])
          /\ out' = <<>>
          /\ UNCHANGED <<janus, isRunning, isStopping, rtpTarget, currentTrack, radioStatus>>
     ELSE IF r = "joined" THEN Established(c, Joined(janus, c.sid))
     ELSE IF r = "other" THEN Established(c, janus)
     ELSE BeginCleanup(c, "join")
  /\ UNCHANGED <<files, jobVars, impVars, ffmpegProcess, playlist, currentIndex, skipCount, procs,
                 timers, failStreak, cmds, spawned, sessions, disk>>

\* what pollForEvent ends with (386-432): the matching event says joined, or it says
\* something else, or no matching event arrives within the 30 s
PollOutcomes == {"joined", "error", "timeout"}

\* pollForEvent ended (306-332, 386-432)
StartPoll(c, r) ==
  /\ c.kind = "start" /\ c.pc = "poll" /\ r \in PollOutcomes
  /\ IF r = "joined" THEN Established(c, Joined(janus, c.sid))
     ELSE BeginCleanup(c, IF r = "timeout" THEN "timeout" ELSE "join")
  /\ UNCHANGED <<files, jobVars, impVars, ffmpegProcess, playlist, currentIndex, skipCount, procs,
                 timers, failStreak, cmds, spawned, sessions, disk>>

\* getFiles({status: 'completed'}) (296)
Completed(fs) == {f \in F : fs[f].status = "completed" /\ fs[f].encoded}

\* the playlists the shuffle of refreshPlaylist can make of the valid files S (315-320)
Shuffles(S) ==
  {s \in [1..Cardinality(S) -> S] : \A i, j \in DOMAIN s : s[i] = s[j] => i = j}

\* refreshPlaylist ended (291-342; RadioService 85-102): missing files are marked failed;
\* with an empty playlist the session is torn down and start fails, else the flags are set,
\* skipCount is reset and status 'starting' is written
StartRefresh(c, pl) ==
  /\ c.kind = "start" /\ c.pc = "refresh" /\ pl \in Shuffles(Completed(files) \cap disk)
  /\ files' = [f \in F |-> IF f \in Completed(files) \ disk
                           THEN TrackFailed(files, f)[f] ELSE files[f]]
  /\ playlist' = pl
  /\ currentIndex' = 0
  /\ IF pl = <<>>
     THEN /\ BeginCleanup(c, "empty")
          /\ UNCHANGED <<skipCount, failStreak>>
     ELSE /\ isRunning' = TRUE
          /\ isStopping' = FALSE
          /\ skipCount' = 0
          /\ failStreak' = 0
          /\ radioStatus' = "starting"
          /\ rcalls' = Replace(rcalls, c, [c EXCEPT !.pc = "save"])
          /\ out' = <<>>
          /\ UNCHANGED <<janus, rtpTarget, currentTrack>>
  /\ UNCHANGED <<jobVars, impVars, ffmpegProcess, procs, timers, cmds, spawned, sessions, disk>>

\* the write of the 'starting' status resolved (104-118): playNextTrack, radio-started
StartSaved(c) ==
  /\ c.kind = "start" /\ c.pc = "save"
  /\ PlayNextTrack(rcalls (-) One(c))
  /\ out' = <<Ev("radio-started", "none"), Ret("start", "ok", TRUE)>>
  /\ UNCHANGED <<files, jobVars, impVars, ffmpegProcess, currentTrack, playlist, rtpTarget, janus,
                 procs, timers, failStreak, cmds, spawned, sessions, disk>>

\* an encoded file is removed from the disk
DeleteEncoded(f) ==
  /\ f \in disk
  /\ disk' = disk \ {f}
  /\ out' = <<>>
  /\ UNCHANGED <<files, jobVars, impVars, isRunning, isStopping, ffmpegProcess, currentTrack, playlist,
                 currentIndex, skipCount, rtpTarget, radioStatus, janus, procs, timers, rcalls,
                 failStreak, cmds, spawned, sessions>>

(***************************************************************************)
(* JanusService keepalive (part_005 66-143)                                *)
(***************************************************************************)
\* a catch block that gives the session up at the failure threshold
KeepaliveFailedTeardown(j) ==
  IF j.keepaliveFailureCount + 1 >= maxKeepaliveFailures
  THEN [ClearIds(j) EXCEPT !.keepaliveTimer = FALSE]
  ELSE [j EXCEPT !.keepaliveFailureCount = @ + 1]

\* sendKeepalive, catch block (112-131): the failure is counted and logged
KeepaliveFailed(j) == [j EXCEPT !.keepaliveFailureCount = @ + 1]

\* the interval timer of startKeepalive fires (77-79): sendKeepalive (84-98) returns at once
\* without a session id, else posts the keepalive request
KeepaliveTick ==
  /\ janus.keepaliveTimer
  /\ IF janus.sessionId = 0
     THEN /\ rcalls' = rcalls
          /\ out' = <<>>
     ELSE /\ rcalls' = rcalls (+) One(RC("keepalive", "sent", "none"))
          /\ out' = <<Req("keepalive")>>
  /\ UNCHANGED <<files, jobVars, impVars, isRunning, isStopping, ffmpegProcess, currentTrack, playlist,
                 currentIndex, skipCount, rtpTarget, radioStatus, janus, procs, timers,
                 failStreak, cmds, spawned, sessions, disk>>

\* what the keepalive request ends with: an ack, another answer, a transport error
KeepaliveAnswers == {"ack", "other", "error"}

\* the keepalive request settled (100-131): an ack resets the failure count, anything else
\* goes to the catch block
KeepaliveResp(c, r) ==
  /\ c.kind = "keepalive" /\ c.pc = "sent"
  /\ janus' = IF r = "ack" THEN [janus EXCEPT !.keepaliveFailureCount = 0]
              ELSE KeepaliveFailed(janus)
  /\ rcalls' = rcalls (-) One(c)
  /\ out' = <<>>
  /\ UNCHANGED <<files, jobVars, impVars, isRunning, isStopping, ffmpegProcess, currentTrack, playlist,
                 currentIndex, skipCount, rtpTarget, radioStatus, procs, timers, failStreak,
                 cmds, spawned, sessions, disk>>

(***************************************************************************)
(* RadioService.updatePlaylist (RadioService.js 248-286)                   *)
(*                                                                         *)
(* An invocation is [kind |-> "update", pc, refs, idx, acc]: refs the list *)
(* it was handed, idx the item of the for loop, acc validatedPlaylist.     *)
(***************************************************************************)
\* the ids a playlist entry can carry: those of the catalog and one that is not in it
Ids == F \cup {"gone"}

\* a validation that does not look at the disk
ValidItemNoDisk(fs, d, id) == id \in F /\ fs[id].status = "completed"

\* the test of line 256: the asset exists, is 'completed', and its encoded file is on disk
ValidItem(fs, d, id) == id \in F /\ fs[id].status = "completed" /\ fs[id].encoded /\ id \in d

\* lines 261-262 and the start of the write: the validated list becomes the playlist, the
\* index is reset
UpAssign(c, rc, acc) ==
  /\ playlist' = acc
  /\ currentIndex' = 0
  /\ rcalls' = rc (+) One([c EXCEPT !.pc = "save", !.acc = acc])

\* a caller invokes updatePlaylist(refs): the loop starts with the first item, or with no
\* item the empty list is assigned at once
UpdatePlaylist(refs) ==
  /\ LET c == [kind |-> "update", pc |-> "item", refs |-> refs, idx |-> 1, acc |-> <<>>]
     IN  IF refs = <<>>
         THEN UpAssign(c, rcalls, <<>>)
         ELSE /\ rcalls' = rcalls (+) One(c)
              /\ UNCHANGED <<playlist, currentIndex>>
  /\ out' = <<>>
  /\ UNCHANGED <<files, jobVars, impVars, isRunning, isStopping, ffmpegProcess, currentTrack, skipCount,
                 rtpTarget, radioStatus, janus, procs, timers, failStreak, cmds, spawned,
                 sessions, disk>>

\* getFile and pathExists of one item settled (255-260): the item is pushed or skipped; after
\* the last item the list is assigned
UpItem(c) ==
  /\ c.kind = "update" /\ c.pc = "item"
  /\ LET id == c.refs[c.idx]
         acc == IF ValidItem(files, disk, id) THEN Append(c.acc, id) ELSE c.acc
     IN  IF c.idx = Len(c.refs)
         THEN UpAssign(c, rcalls (-) One(c), acc)
         ELSE /\ rcalls' = Replace(rcalls, c, [c EXCEPT !.idx = @ + 1, !.acc = acc])
              /\ UNCHANGED <<playlist, currentIndex>>
  /\ out' = <<>>
  /\ UNCHANGED <<files, jobVars, impVars, isRunning, isStopping, ffmpegProcess, currentTrack, skipCount,
                 rtpTarget, radioStatus, janus, procs, timers, failStreak, cmds, spawned,
                 sessions, disk>>

\* the write of updateRadioState settled (265-285): the event and {success: true}, or
\* {success: false} from the catch block
UpSaved(c, ok) ==
  /\ c.kind = "update" /\ c.pc = "save"
  /\ rcalls' = rcalls (-) One(c)
  /\ out' = IF ok THEN <<Ev("radio-playlist-updated", "none"), Ret("updatePlaylist", "ok", TRUE)>>
            ELSE <<Ret("updatePlaylist", "failed", FALSE)>>
  /\ UNCHANGED <<files, jobVars, impVars, isRunning, isStopping, ffmpegProcess, currentTrack, playlist,
                 currentIndex, skipCount, rtpTarget, radioStatus, janus, procs, timers,
                 failStreak, cmds, spawned, sessions, disk>>

(***************************************************************************)
(* FileImportService: the watchers of the incoming (raw upload) and the    *)
(* reencoded (pre-encoded drop-in) directory.                              *)
(***************************************************************************)
\* directoryType
D == {"incoming", "reencoded"}

\* this.intervals of the constructor (36-47), in milliseconds
DefaultIntervals ==
  [encodingActive |-> 300000, highActivity |-> 30000, normal |-> 120000, disabled |-> 3600000]

\* this.intervals after initialize (70-75) for the stored configuration cfg: a monitoring
\* interval that is set replaces normal, at least one minute; a reencoded monitoring
\* interval that is set replaces disabled, at least five minutes
ConfiguredIntervals(cfg) ==
  [DefaultIntervals EXCEPT
     !.normal = IF cfg.monitoringInterval # 0
                THEN (IF cfg.monitoringInterval > 60000 THEN cfg.monitoringInterval ELSE 60000)
                ELSE @,
     !.disabled = IF cfg.reencodedMonitoringInterval # 0
                  THEN (IF cfg.reencodedMonitoringInterval > 300000
                        THEN cfg.reencodedMonitoringInterval ELSE 300000)
                  ELSE @]

\* a calculateAdaptiveInterval that looks at the recent activity before the encoding
CalculateAdaptiveIntervalActivityFirst(iv, autoEnabled, encodingActive, recentActivity) ==
  IF ~autoEnabled THEN iv.disabled
  ELSE IF recentActivity THEN iv.highActivity
  ELSE IF encodingActive THEN iv.encodingActive
  ELSE iv.normal

\* calculateAdaptiveInterval (127-151) for the intervals iv, the auto-import flag of the
\* watcher, isEncodingActive() and the activity flag of the watcher
CalculateAdaptiveInterval(iv, autoEnabled, encodingActive, recentActivity) ==
  IF ~autoEnabled THEN iv.disabled
  ELSE IF encodingActive THEN iv.encodingActive
  ELSE IF recentActivity THEN iv.highActivity
  ELSE iv.normal

\* FFmpegService.isEncodingActive (package.json 630-632)
IsEncodingActive(cs) == MapSize(cs) > 0

\* a caller invokes calculateAdaptiveInterval(d), as performAdaptiveDirectoryScan does
\* after each scan (303)
AdaptiveInterval(d) ==
  /\ out' = <<Ret("calculateAdaptiveInterval", d,
                  CalculateAdaptiveInterval(mon.intervals, mon.enabled[d],
                                            IsEncodingActive(calls), mon.recent[d]))>>
  /\ UNCHANGED <<files, jobVars, radioVars, impVars>>

\* FileImportService.constructor (19-32): nothing watched, no activity, baselines 0.
\* tick is the scan loop of a watcher: "off", "timer" (its setTimeout is pending) or
\* "running"; deferred counts the pending 30 s timers of performLightweightScan, auto the
\* pending 1 s timers of performFullScan, reset names the watcher whose activity reset is
\* the pending activityResetTimeout
NoMonitor ==
  /\ dirs = [d \in D |-> <<>>]
  /\ mon = [tick |-> [d \in D |-> "off"], lastCount |-> [d \in D |-> 0],
            recent |-> [d \in D |-> FALSE], reset |-> "none",
            deferred |-> [d \in D |-> 0], auto |-> 0, autoEncodingEnabled |-> FALSE,
            enabled |-> [d \in D |-> FALSE],
            monitoring |-> [d \in D |-> FALSE], intervals |-> DefaultIntervals]
  /\ scans = EmptyBag

\* a file of a watched directory that has no record in the catalog
AbsentFile == [NewFile EXCEPT !.status = "absent"]

\* the record MetadataService.addFile (229-283) stores for the fileRecord of
\* importSingleFile (666-683): status 'uploaded' and progress 0 whatever the fileRecord
\* says, encodedPath as given (the source path for the reencoded directory), the upload
\* date of the registration
ImportRecord(fs, d) ==
  [NewFile EXCEPT !.encoded = (d = "reencoded"),
                  !.uploadDate = Cardinality({f \in F : fs[f].status # "absent"}) + 1]

\* filesWithStats.sort((a, b) => b.mtime - a.mtime) (598): newest first
RECURSIVE NewestFirst(_)
NewestFirst(sq) == IF sq = <<>> THEN <<>> ELSE Append(NewestFirst(Tail(sq)), Head(sq))

\* getFiles({status: 'uploaded'}) (part_000 315-336) of the trigger and its sort (462, 745):
\* the uploaded assets of S by upload date, newest first, equal dates in catalog order
RECURSIVE UploadedNewestFirst(_, _)
UploadedNewestFirst(fs, S) ==
  IF S = {} THEN <<>>
  ELSE LET Pos(f) == CHOOSE i \in 1..Len(FileOrder) : FileOrder[i] = f
           x == CHOOSE a \in S : \A b \in S \ {a} :
                  \/ fs[a].uploadDate > fs[b].uploadDate
                  \/ fs[a].uploadDate = fs[b].uploadDate /\ Pos(a) < Pos(b)
       IN  <<x>> \o UploadedNewestFirst(fs, S \ {x})

\* the loop of a trigger (465-476, 749-771): encodeFile is called for each file of the list
\* without being awaited, so that each call runs its checks of lines 129-137 at once; the
\* batch trigger asks getActiveJobs before each call and breaks at the ceiling
RECURSIVE StartEncodes(_, _, _, _)
StartEncodes(list, fs, cs, recheck) ==
  IF list = <<>> \/ (recheck /\ MapSize(cs) >= maxConcurrent) THEN <<fs, cs>>
  ELSE StartEncodes(Tail(list), EncodeEntryFiles(fs, cs, Head(list)),
                    cs (+) One(EncodeEntryCall(cs, Head(list))), recheck)

\* a file with a supported extension appears in a watched directory
Drop(f, d) ==
  /\ \A e \in D : f \notin {dirs[e][i] : i \in 1..Len(dirs[e])}
  /\ dirs' = [dirs EXCEPT ![d] = Append(@, f)]
  /\ out' = <<>>
  /\ UNCHANGED <<files, jobVars, radioVars, mon, scans>>

\* the setTimeout of a watcher's scan loop fires (326-330): performAdaptiveDirectoryScan
\* (292-300) starts a lightweight scan while isEncodingActive(), else a full scan; both
\* begin with pathExists and readdir
Tick(d) ==
  /\ mon.tick[d] = "timer"
  /\ mon' = [mon EXCEPT !.tick[d] = "running"]
  /\ scans' = scans (+) One([kind |-> IF MapSize(calls) > 0 THEN "light" ELSE "full", dir |-> d,
                             src |-> "tick", pc |-> "readdir", list |-> <<>>, idx |-> 1,
                             imported |-> 0])
  /\ out' = <<>>
  /\ UNCHANGED <<files, jobVars, radioVars, dirs>>

\* readdir of detectNewActivity resolved (156-208, 231-247, 302-311): the baseline takes the
\* current count; on growth the activity flag is set, the single activityResetTimeout is
\* set anew for this watcher and a 30 s timer for a full scan is set; the loop sets its
\* next setTimeout
LightDone(c) ==
  /\ c.kind = "light"
  /\ LET n == Len(dirs[c.dir])
         grown == n > mon.lastCount[c.dir]
     IN  mon' = [mon EXCEPT !.lastCount[c.dir] = n,
                            !.recent[c.dir] = IF grown THEN TRUE ELSE @,
                            !.reset = IF grown THEN c.dir ELSE @,
                            !.deferred[c.dir] = IF grown THEN @ + 1 ELSE @,
                            !.tick[c.dir] = "timer"]
  /\ scans' = scans (-) One(c)
  /\ out' = <<>>
  /\ UNCHANGED <<files, jobVars, radioVars, dirs>>

\* the activityResetTimeout fires (217-225)
ActivityReset ==
  /\ mon.reset # "none"
  /\ mon' = [mon EXCEPT !.recent[mon.reset] = FALSE, !.reset = "none"]
  /\ out' = <<>>
  /\ UNCHANGED <<files, jobVars, radioVars, dirs, scans>>

\* a 30 s timer of performLightweightScan fires (238-243): a full scan is started if no
\* encode is active now, else the callback ends
DeferredFire(d) ==
  /\ mon.deferred[d] > 0
  /\ mon' = [mon EXCEPT !.deferred[d] = @ - 1]
  /\ scans' = IF MapSize(calls) = 0
              THEN scans (+) One([kind |-> "full", dir |-> d, src |-> "deferred",
                                  pc |-> "readdir", list |-> <<>>, idx |-> 1, imported |-> 0])
              ELSE scans
  /\ out' = <<>>
  /\ UNCHANGED <<files, jobVars, radioVars, dirs>>

\* readdir and the stats of scanAndImportFromDirectory resolved (565-598): the files of
\* the directory, newest first
FullList(c) ==
  /\ c.kind = "full" /\ c.pc = "readdir"
  /\ scans' = (scans (-) One(c)) (+) One([c EXCEPT !.pc = "import", !.list = NewestFirst(dirs[c.dir])])
  /\ out' = <<>>
  /\ UNCHANGED <<files, jobVars, radioVars, dirs, mon>>

\* importSingleFile of the next file (600-623, 644-701): after its stat, a file whose path
\* getFileByPath finds is skipped, else addFile stores its record
FullImport(c) ==
  /\ c.kind = "full" /\ c.pc = "import" /\ c.idx <= Len(c.list)
  /\ LET f == c.list[c.idx]
         new == files[f].status = "absent"
     IN  /\ files' = IF new THEN [files EXCEPT ![f] = ImportRecord(files, c.dir)] ELSE files
         /\ scans' = (scans (-) One(c)) (+)
                       One([c EXCEPT !.idx = @ + 1, !.imported = IF new THEN @ + 1 ELSE @])
  /\ out' = <<>>
  /\ UNCHANGED <<jobVars, radioVars, dirs, mon>>

\* the scan has gone through its list (625-634, 259-283, 328-330): with imports the event
\* is emitted and, for the incoming directory with auto-encoding enabled, the 1 s timer of
\* triggerAutoEncoding is set; a scan of the loop sets the loop's next setTimeout
FullDone(c) ==
  /\ c.kind = "full" /\ c.pc = "import" /\ c.idx > Len(c.list)
  /\ scans' = scans (-) One(c)
  /\ mon' = [mon EXCEPT
              !.auto = IF c.imported > 0 /\ c.dir = "incoming" /\ mon.autoEncodingEnabled
                       THEN @ + 1 ELSE @,
              !.tick[c.dir] = IF c.src = "tick" THEN "timer" ELSE @]
  /\ out' = IF c.imported > 0 THEN <<Ev("files-auto-imported", c.dir)>> ELSE <<>>
  /\ UNCHANGED <<files, jobVars, radioVars, dirs>>

\* The scan loop of a watcher under startXMonitoring and stopXMonitoring: each setTimeout
\* of performScan is a record of scans with kind "loop", pc "timer" while it is pending
\* and "cycle" while its performScan runs; src is "held" for the pending timer that
\* this.incomingMonitoringInterval (this.reencodedMonitoringInterval) refers to, "loose"
\* for any other.  A start that awaits updateFileCountBaselines has kind "start".
LoopRecord(d, src, pc) ==
  [kind |-> "loop", dir |-> d, src |-> src, pc |-> pc, list |-> <<>>, idx |-> 1, imported |-> 0]

\* the scan loops of watcher d: its pending timers and its running cycles
Loops(d) == SumCopies(scans, {c \in BagToSet(scans) : c.kind = "loop" /\ c.dir = d})

\* clearTimeout(this.incomingMonitoringInterval) (400-403): the timer the handle refers to
\* is cancelled if it is pending
ClearHeld(sc, d) == sc (-) One(LoopRecord(d, "held", "timer"))

\* the handle is assigned another timer: the one it referred to stays pending
Overwritten(sc, d) ==
  IF CopiesIn(LoopRecord(d, "held", "timer"), sc) > 0
  THEN (sc (-) One(LoopRecord(d, "held", "timer"))) (+) One(LoopRecord(d, "loose", "timer"))
  ELSE sc

\* startIncomingMonitoring / startReencodedMonitoring is invoked (317-324, 358-365): it
\* returns at once if the watcher is monitoring, else it awaits updateFileCountBaselines
StartMonitoring(d) ==
  /\ scans' = IF mon.monitoring[d] THEN scans
              ELSE scans (+) One([LoopRecord(d, "config", "baselines") EXCEPT !.kind = "start"])
  /\ ops' = ops + 1
  /\ out' = <<>>
  /\ UNCHANGED <<files, jobs, jobHistory, calls, recList, recIdx, recPc, restarts, radioVars,
                 dirs, mon>>

\* updateFileCountBaselines resolved (104-122, 326-345): both baselines take the current
\* counts, setTimeout(performScan, 5000) is called without its handle being stored, and
\* the flags of the watcher are set
StartBaselined(c) ==
  /\ c.kind = "start"
  /\ scans' = (scans (-) One(c)) (+) One(LoopRecord(c.dir, "loose", "timer"))
  /\ mon' = [mon EXCEPT !.lastCount = [d \in D |-> Len(dirs[d])],
                         !.monitoring[c.dir] = TRUE, !.enabled[c.dir] = TRUE]
  /\ out' = <<>>
  /\ UNCHANGED <<files, jobVars, radioVars, dirs>>

\* stopIncomingMonitoring / stopReencodedMonitoring (399-426)
StopMonitoring(d) ==
  /\ scans' = ClearHeld(scans, d)
  /\ mon' = [mon EXCEPT !.monitoring[d] = FALSE, !.enabled[d] = FALSE, !.recent[d] = FALSE]
  /\ ops' = ops + 1
  /\ out' = <<>>
  /\ UNCHANGED <<files, jobs, jobHistory, calls, recList, recIdx, recPc, restarts, radioVars,
                 dirs>>

\* a pending timer of a loop fires: performScan begins (326-328)
LoopFire(c) ==
  /\ c.kind = "loop" /\ c.pc = "timer"
  /\ scans' = (scans (-) One(c)) (+) One(LoopRecord(c.dir, "loose", "cycle"))
  /\ out' = <<>>
  /\ UNCHANGED <<files, jobVars, radioVars, dirs, mon>>

\* performAdaptiveDirectoryScan of a cycle resolved or threw (328-338): the next timer is
\* set and its handle stored, whatever the flags of the watcher say
LoopCycleDone(c) ==
  /\ c.kind = "loop" /\ c.pc = "cycle"
  /\ scans' = Overwritten(scans (-) One(c), c.dir) (+) One(LoopRecord(c.dir, "held", "timer"))
  /\ out' = <<>>
  /\ UNCHANGED <<files, jobVars, radioVars, dirs, mon>>

\* the assets with status 'uploaded'
Uploaded(fs) == {f \in F : fs[f].status = "uploaded"}

\* a 1 s timer of performFullScan fires: triggerAutoEncoding (431-479).  getActiveJobs
\* (package.json 578-598) lists the entries of the activeJobs Map; getFiles ignores the
\* limit it is given (part_000 315-336), so the list holds every uploaded asset
TriggerAutoEncoding ==
  /\ mon.auto > 0
  /\ mon' = [mon EXCEPT !.auto = @ - 1]
  /\ LET r == IF mon.autoEncodingEnabled /\ MapSize(calls) < maxConcurrent
              THEN StartEncodes(UploadedNewestFirst(files, Uploaded(files)), files, calls, FALSE)
              ELSE <<files, calls>>
     IN  /\ files' = r[1]
         /\ calls' = r[2]
  /\ out' = <<>>
  /\ UNCHANGED <<jobs, jobHistory, recList, recIdx, recPc, ops, restarts, radioVars, dirs, scans>>

\* the operator invokes triggerBatchEncoding (733-785): it returns the number of encodes
\* it started
TriggerBatchEncoding ==
  /\ LET r == StartEncodes(UploadedNewestFirst(files, Uploaded(files)), files, calls, TRUE)
     IN  /\ files' = r[1]
         /\ calls' = r[2]
         /\ out' = <<Ret("triggerBatchEncoding", "queued",
                         BagCardinality(r[2]) - BagCardinality(calls))>>
  /\ ops' = ops + 1
  /\ UNCHANGED <<jobs, jobHistory, recList, recIdx, recPc, restarts, radioVars, impVars>>

----
(***************************************************************************)
(* MetadataService.addFile and getFileByPath (part_000 229-283, 377-379)   *)
(* over data.files as the array it is: a sequence of records with their    *)
(* id and originalPath.  An id is a number, 0 stands for none.             *)
(***************************************************************************)
Paths == {"p1", "p2"}

\* the fileData handed to addFile: the importer and the upload route pass the uuid they
\* made as id, other callers none
FileData == [id : 0..MaxFiles, originalPath : Paths]

\* uuidv4(): an id no record of the catalog has
Uuid(fs) ==
  LET used == {fs[i].id : i \in 1..Len(fs)} \cup {0}
  IN  1 + CHOOSE n \in used : \A k \in used : k <= n

\* a record that forgets the path it was given
FileRecordNoPath(fd, fs) ==
  [id |-> IF fd.id # 0 THEN fd.id ELSE Uuid(fs), originalPath |-> "none"]

\* the fileRecord of addFile (230-235): id: fileData.id || uuidv4(), originalPath
FileRecord(fd, fs) ==
  [id |-> IF fd.id # 0 THEN fd.id ELSE Uuid(fs), originalPath |-> fd.originalPath]

\* this.data.files.find(f => f.originalPath === filePath) || null (378): the id of the
\* first record with the path, 0 for null
RECURSIVE FindByPath(_, _)
FindByPath(fs, path) ==
  IF fs = <<>> THEN 0
  ELSE IF Head(fs).originalPath = path THEN Head(fs).id
  ELSE FindByPath(Tail(fs), path)

\* a caller invokes addFile(fd): the record is pushed and writeData is awaited (268-274);
\* fresh says that no record had the path at that moment
AddFile(fd) ==
  /\ Len(files) < MaxFiles
  /\ files' = Append(files, FileRecord(fd, files))
  /\ calls' = calls (+) One([kind |-> "addFile", id |-> FileRecord(fd, files).id,
                             path |-> fd.originalPath,
                             fresh |-> FindByPath(files, fd.originalPath) = 0])
  /\ out' = <<>>
  /\ UNCHANGED <<jobs, jobHistory, recList, recIdx, recPc, ops, restarts, radioVars, impVars>>

\* the write resolved: addFile returns its record (276-282)
AddFileSaved(c) ==
  /\ c.kind = "addFile"
  /\ calls' = calls (-) One(c)
  /\ out' = <<Ret("addFile", c.path, c.id)>>
  /\ UNCHANGED <<files, jobs, jobHistory, recList, recIdx, recPc, ops, restarts, radioVars,
                 impVars>>

\* a caller invokes getFileByPath(path)
GetFileByPath(path) ==
  /\ out' = <<Ret("getFileByPath", path, FindByPath(files, path))>>
  /\ UNCHANGED <<files, jobVars, radioVars, impVars>>

\* path.join(targetDir, fileName) (647): the source path of a file of a watched directory
SourcePath(d, f) == <<d, f>>

\* a check that finds no record whatever the catalog holds
ImportNeededAlways(fs, path) == TRUE

\* existingFile of importSingleFile (657-660) is null: no record has the path
ImportNeeded(fs, path) == FindByPath(fs, path) = 0

\* the operator invokes scanAndImportIncoming or scanAndImportReencoded (547-553)
ManualScan(d) ==
  /\ scans' = scans (+) One([kind |-> "full", dir |-> d, src |-> "manual", pc |-> "readdir",
                             list |-> <<>>, idx |-> 1, imported |-> 0])
  /\ ops' = ops + 1
  /\ out' = <<>>
  /\ UNCHANGED <<files, jobs, jobHistory, calls, recList, recIdx, recPc, restarts, radioVars,
                 dirs, mon>>

\* the stat of importSingleFile resolved for the next file of a scan (600-602, 651-683).
\* getFileByPath and the fileRecord follow with no I/O between them, only the await of the
\* settled promise of getFileByPath, and addFile pushes its record before its first await
\* (part_000 269): the lookup and the push are one step.  A file with a record is
\* skipped; for another the scan waits for the writeData of addFile
ScanImport(c) ==
  /\ c.kind = "full" /\ c.pc = "import" /\ c.idx <= Len(c.list)
  /\ LET path == SourcePath(c.dir, c.list[c.idx])
     IN  IF ImportNeeded(files, path)
         THEN /\ Len(files) < MaxFiles
              /\ files' = Append(files, FileRecord([id |-> Uuid(files), originalPath |-> path],
                                                   files))
              /\ scans' = (scans (-) One(c)) (+) One([c EXCEPT !.pc = "write"])
         ELSE /\ files' = files
              /\ scans' = (scans (-) One(c)) (+) One([c EXCEPT !.idx = @ + 1])
  /\ out' = <<>>
  /\ UNCHANGED <<jobVars, radioVars, dirs, mon>>

\* the writeData of addFile settled (part_000 275, FileImportService.js 683-699, 603-626):
\* the file counts as imported, or addFile threw and the file counts as an error, the
\* record staying in data.files; the scan goes on with the next file
ScanSaved(c, ok) ==
  /\ c.kind = "full" /\ c.pc = "write"
  /\ scans' = (scans (-) One(c)) (+)
                One([c EXCEPT !.pc = "import", !.idx = @ + 1,
                              !.imported = IF ok THEN @ + 1 ELSE @])
  /\ out' = <<>>
  /\ UNCHANGED <<files, jobVars, radioVars, dirs, mon>>

----
(***************************************************************************)
(* gracefulShutdown (server.js 83-139) with RadioService.cleanup           *)
(* (RadioService.js 593-625), FFmpegService.cleanup (package.json 635-653) *)
(* and FileImportService.cleanup (FileImportService.js 834-858).  The      *)
(* invocation is a record of rcalls with the fields of RC and keys, the    *)
(* activeJobIds that FFmpegService.cleanup has still to go through.        *)
(***************************************************************************)
ShuttingDown == \E c \in BagToSet(rcalls) : c.kind = "shutdown"

\* process.exit was called: nothing of the server runs any more
Exited == \E c \in BagToSet(rcalls) : c.kind = "shutdown" /\ c.pc = "exited"

\* Array.from(this.activeJobs.keys()) (package.json 638)
MapKeys(cs) == {f \in F : HasJob(cs, f)}

\* the loop of FFmpegService.cleanup (644-650) from the keys K on: a cancelEncoding that
\* finds no entry returns false at once, the first one that finds its entry signals the
\* subprocess, deletes the entry and awaits the write of updateActiveJob
RECURSIVE CancelFrom(_, _, _)
CancelFrom(cs, js, K) ==
  IF K = {} THEN [calls |-> cs, jobs |-> js, keys |-> {}]
  ELSE LET f == CHOOSE k \in K : TRUE IN
       IF CancelFinds(cs, f)
       THEN [calls |-> CancelKill(cs, f) (+) One(Call("cancel", f, "x1", FALSE)),
             jobs |-> CancelJobs(cs, js, f), keys |-> K \ {f}]
       ELSE CancelFrom(cs, js, K \ {f})

\* FileImportService.cleanup (834-858): the timers of the two scan loops and the
\* activityResetTimeout are cleared, the flags are reset
StopWatchers(m) ==
  [m EXCEPT !.tick = [d \in D |-> "off"], !.reset = "none", !.recent = [d \in D |-> FALSE],
            !.monitoring = [d \in D |-> FALSE]]

\* FileImportService.cleanup (834-858) with the loops as their timers: clearTimeout reaches
\* the timer each stored handle refers to
Cleanup ==
  /\ mon' = StopWatchers(mon)
  /\ scans' = ClearHeld(ClearHeld(scans, "incoming"), "reencoded")
  /\ ops' = ops + 1
  /\ out' = <<>>
  /\ UNCHANGED <<files, jobs, jobHistory, calls, recList, recIdx, recPc, restarts, radioVars,
                 dirs>>

\* gracefulShutdown from FFmpegService.cleanup on (109-131): the encodes of K are
\* cancelled one after the other, then the watchers are stopped and the final 2 s wait
\* begins; c is the record that replaces c0
CleanupEncodes(c0, c, cs, K, o) ==
  LET r == CancelFrom(cs, jobs, K) IN
  /\ calls' = r.calls
  /\ jobs' = r.jobs
  /\ out' = o
  /\ IF r.calls = cs
     THEN /\ mon' = StopWatchers(mon)
          /\ rcalls' = Replace(rcalls, c0, [c EXCEPT !.pc = "final", !.keys = {}])
     ELSE /\ mon' = mon
          /\ rcalls' = Replace(rcalls, c0, [c EXCEPT !.pc = "cancel", !.keys = r.keys])

\* RadioService.cleanup calls JanusService.cleanup (615-620, part_005 459-503): with
\* nothing held the target is cleared at once and gracefulShutdown goes on
CleanupJanus(c0) ==
  LET c == [c0 EXCEPT !.why = "shutdown", !.held = Held(janus)]
      first == CleanupFirst(janus)
  IN  IF first = "none"
      THEN /\ janus' = ClearIds(StopKeepalive(janus))
           /\ rtpTarget' = 0
           /\ CleanupEncodes(c0, c, calls, MapKeys(calls), <<Cleaned(c)>>)
      ELSE /\ janus' = StopKeepalive(janus)
           /\ rcalls' = Replace(rcalls, c0, [c EXCEPT !.pc = first, !.sent = {first}])
           /\ out' = <<Req(first)>>
           /\ UNCHANGED <<rtpTarget, calls, jobs, mon>>

\* SIGTERM or SIGINT arrives (83-104): clients are notified and 1 s is waited
GracefulShutdown ==
  /\ ~ShuttingDown
  /\ rcalls' = rcalls (+) One(RC("shutdown", "notify", "none") @@ [keys |-> {}])
  /\ out' = <<Ev("server_restart", "none")>>
  /\ UNCHANGED <<files, jobVars, impVars, isRunning, isStopping, ffmpegProcess, currentTrack,
                 playlist, currentIndex, skipCount, rtpTarget, radioStatus, janus, procs,
                 timers, failStreak, cmds, spawned, sessions, disk>>

\* the 1 s are over: RadioService.cleanup (596-612) sets the flags; the subprocess
\* this.ffmpegProcess refers to loses its listeners and is sent SIGTERM, and 2 s are
\* waited; with no subprocess JanusService.cleanup is called at once
CleanupRadio(c) ==
  /\ c.kind = "shutdown" /\ c.pc = "notify"
  /\ isStopping' = TRUE
  /\ isRunning' = FALSE
  /\ IF ffmpegProcess # 0
     THEN /\ procs' = Signal(procs, ffmpegProcess, TRUE)
          /\ rcalls' = Replace(rcalls, c, [c EXCEPT !.pc = "killwait"])
          /\ out' = <<>>
          /\ UNCHANGED <<rtpTarget, janus, calls, jobs, mon>>
     ELSE /\ procs' = procs
          /\ CleanupJanus(c)
  /\ UNCHANGED <<files, jobHistory, recList, recIdx, recPc, ops, restarts, dirs, scans,
                 ffmpegProcess, currentTrack, playlist, currentIndex, skipCount, radioStatus,
                 timers, failStreak, cmds, spawned, sessions, disk>>

\* the 2 s of RadioService.cleanup are over (605-610)
CleanupKillWaited(c) ==
  /\ c.kind = "shutdown" /\ c.pc = "killwait"
  /\ CleanupJanus(c)
  /\ UNCHANGED <<files, jobHistory, recList, recIdx, recPc, ops, restarts, dirs, scans,
                 isRunning, isStopping, ffmpegProcess, currentTrack, playlist, currentIndex,
                 skipCount, radioStatus, procs, timers, failStreak, cmds, spawned, sessions,
                 disk>>

\* the destroy request of the cleanup settled (part_005 482-502): the identifiers and the
\* target are cleared (RadioService.js 617) and gracefulShutdown goes on
CleanupDestroyed(c) ==
  /\ c.kind = "shutdown" /\ c.pc = "destroy"
  /\ janus' = ClearIds(janus)
  /\ rtpTarget' = 0
  /\ CleanupEncodes(c, c, calls, MapKeys(calls), <<Cleaned(c)>>)
  /\ UNCHANGED <<files, jobHistory, recList, recIdx, recPc, ops, restarts, dirs, scans,
                 isRunning, isStopping, ffmpegProcess, currentTrack, playlist, currentIndex,
                 skipCount, radioStatus, procs, timers, failStreak, cmds, spawned, sessions,
                 disk>>

\* the cancelEncoding x of FFmpegService.cleanup returns true (package.json 568-571,
\* 644-650): the next of the activeJobIds is cancelled, or the cleanup goes on
CleanupCancelled(x, c) ==
  /\ x.kind = "cancel" /\ x.pc = "x3"
  /\ c.kind = "shutdown" /\ c.pc = "cancel"
  /\ CleanupEncodes(c, c, calls (-) One(x), c.keys,
                    <<Ev("encoding-cancelled", x.file), Ret("cancelEncoding", x.file, TRUE)>>)
  /\ UNCHANGED <<files, jobHistory, recList, recIdx, recPc, ops, restarts, dirs, scans,
                 isRunning, isStopping, ffmpegProcess, currentTrack, playlist, currentIndex,
                 skipCount, rtpTarget, radioStatus, janus, procs, timers, failStreak, cmds,
                 spawned, sessions, disk>>

\* the final 2 s are over: process.exit(0) (server.js 128-132)
ShutdownExit(c) ==
  /\ c.kind = "shutdown" /\ c.pc = "final"
  /\ rcalls' = Replace(rcalls, c, [c EXCEPT !.pc = "exited"])
  /\ out' = <<>>
  /\ UNCHANGED <<files, jobVars, impVars, isRunning, isStopping, ffmpegProcess, currentTrack,
                 playlist, currentIndex, skipCount, rtpTarget, radioStatus, janus, procs,
                 timers, failStreak, cmds, spawned, sessions, disk>>

\* RadioService and JanusService constructors
InitRadioVars ==
  /\ isRunning = FALSE
  /\ isStopping = FALSE
  /\ ffmpegProcess = 0
  /\ currentTrack = "none"
  /\ playlist = <<>>
  /\ currentIndex = 0
  /\ skipCount = 0
  /\ rtpTarget = 0
  /\ radioStatus = "stopped"
  /\ janus = NoSession
  /\ procs = {}
  /\ timers = 0
  /\ rcalls = EmptyBag
  /\ failStreak = 0
  /\ cmds = 0
  /\ spawned = 0
  /\ sessions = 0

----
(***************************************************************************)
(* The encoding job manager and the store.                                 *)
(***************************************************************************)
InitEnc ==
  /\ files = [f \in F |-> NewFile]
  /\ jobs = <<>>
  /\ jobHistory = <<>>
  /\ calls = EmptyBag
  /\ recList = <<>>
  /\ recIdx = 1
  /\ recPc = "done"
  /\ out = <<>>
  /\ ops = 0
  /\ restarts = 0
  /\ NoMonitor
  /\ InitRadioVars
  /\ disk = {}

Init == InitEnc

\* the steps of encodeFile and of the subprocess it supervises
EncodeSteps ==
  \/ \E c \in BagToSet(calls) : EncGetFile(c)
  \/ \E c \in BagToSet(calls) : EncPathExists(c)
  \/ \E c \in BagToSet(calls) : EncAddJob(c)
  \/ \E c \in BagToSet(calls) : EncSpawn(c)
  \/ \E c \in BagToSet(calls) : ProcSpawned(c)
  \/ \E c \in BagToSet(calls) : ProcError(c)
  \/ \E c \in BagToSet(calls), empty \in BOOLEAN : ProcCloseZero(c, empty)
  \/ \E c \in BagToSet(calls) : ProcCloseFail(c)
  \/ \E c \in BagToSet(calls) : EncCatch(c)
  \/ \E c \in BagToSet(calls) : EncCatch1(c)
  \/ \E c \in BagToSet(calls) : EncCatch2(c)
  \/ \E c \in BagToSet(calls) : EncResolve(c)
  \/ \E c \in BagToSet(calls) : EncComplete1(c)
  \/ \E c \in BagToSet(calls) : EncComplete2(c)

\* the job manager under its three commands, in one run of the process
NextEnc ==
  \/ \E f \in F : EncodeFile(f)
  \/ \E f \in F : CancelEncoding(f)
  \/ \E f \in F : RetryEncoding(f)
  \/ EncodeSteps
  \/ \E c \in BagToSet(calls) : CancelStep1(c)
  \/ \E c \in BagToSet(calls) : CancelStep2(c)
  \/ \E c \in BagToSet(calls) : CancelStep3(c)
  \/ \E c \in BagToSet(calls) : ProcDie(c)
  \/ \E c \in BagToSet(calls) : RetryStep0(c)
  \/ \E c \in BagToSet(calls) : RetryStep1(c)

SpecEnc == Init /\ [][NextEnc]_vars

\* encodeFile across restarts of the process, with the startup recovery
NextRestart ==
  \/ \E f \in F : EncodeFile(f)
  \/ EncodeSteps
  \/ Restart
  \/ RecoveryReset
  \/ RecoveryEmit

SpecRestart == Init /\ [][NextRestart]_vars

\* an asset as a crash between updateFile(encoding) and addActiveJob leaves it (157-172)
OrphanFile == [NewFile EXCEPT !.status = "encoding"]

\* server.listen has been called (server.js 460-461): initializeServices is not in flight
Listening == \A c \in BagToSet(calls) : c.kind # "init"

\* the process just started on the store a crash left: the constructor of FFmpegService
\* has called initializeJobRecovery without awaiting it (package.json 64), and the
\* recovery, whose getIncompleteJobs is settled at once, has made the updateFile of its
\* first asset and awaits the write (84-93); initializeServices (server.js 57-75) awaits
\* its other services
InitBoot ==
  /\ \E fs \in [F -> {NewFile, OrphanFile}] :
       LET l == GetIncompleteJobs(fs, <<>>) IN
       /\ recList = l
       /\ files = IF l = <<>> THEN fs ELSE RecoveryUpdate(fs, l[1])
       /\ recIdx = IF l = <<>> THEN 1 ELSE 2
  /\ recPc = "loop"
  /\ jobs = <<>>
  /\ jobHistory = <<>>
  /\ calls = One(Call("init", "none", "services", FALSE))
  /\ out = <<>>
  /\ ops = 0
  /\ restarts = 1
  /\ NoMonitor
  /\ InitRadioVars
  /\ disk = {}

\* initializeServices resolved: server.listen (server.js 460-461)
Listen(c) ==
  /\ c.kind = "init"
  /\ calls' = calls (-) One(c)
  /\ out' = <<>>
  /\ UNCHANGED <<files, jobs, jobHistory, recList, recIdx, recPc, ops, restarts, radioVars,
                 impVars>>

\* the startup of the process: the recovery goes on while the services are initialized,
\* and once the server listens encodeFile is invoked
NextBoot ==
  \/ \E c \in BagToSet(calls) : Listen(c)
  \/ RecoveryReset
  \/ RecoveryEmit
  \/ \E f \in F : Listening /\ EncodeFile(f)
  \/ EncodeSteps

SpecBoot == InitBoot /\ [][NextBoot]_vars

----
(***************************************************************************)
(* The sequencer and the protocol client.                                  *)
(***************************************************************************)
\* an asset whose encode completed
EncodedFile == [NewFile EXCEPT !.status = "completed", !.progress = 100, !.encoded = TRUE]

\* the server with every asset of the catalog encoded and no encode under way
InitRadio ==
  /\ files = [f \in F |-> EncodedFile]
  /\ jobs = <<>>
  /\ jobHistory = <<>>
  /\ calls = EmptyBag
  /\ recList = <<>>
  /\ recIdx = 1
  /\ recPc = "done"
  /\ out = <<>>
  /\ ops = 0
  /\ restarts = 0
  /\ NoMonitor
  /\ InitRadioVars
  /\ disk \in SUBSET F

\* the playlists of one refresh
Playlists == UNION {Shuffles(S) : S \in SUBSET F}

\* the session handling of start and stop under overlapping commands and every answer of
\* the gateway; the check of the first track's file has not returned yet
NextSession ==
  \/ cmds < MaxCmds /\ Start
  \/ cmds < MaxCmds /\ Stop
  \/ \E c \in BagToSet(rcalls), ok \in BOOLEAN : StartCreated(c, ok)
  \/ \E c \in BagToSet(rcalls), ok \in BOOLEAN : StartAttached(c, ok)
  \/ \E c \in BagToSet(rcalls), r \in JoinResponses : StartJoinResp(c, r)
  \/ \E c \in BagToSet(rcalls), r \in PollOutcomes : StartPoll(c, r)
  \/ \E c \in BagToSet(rcalls), pl \in Playlists : StartRefresh(c, pl)
  \/ \E c \in BagToSet(rcalls) : StartSaved(c)
  \/ \E c \in BagToSet(rcalls) : CleanupLeaveDone(c)
  \/ \E c \in BagToSet(rcalls) : CleanupDestroyDone(c)
  \/ \E c \in BagToSet(rcalls), ok \in BOOLEAN : StopW1(c, ok)
  \/ \E c \in BagToSet(rcalls), ok \in BOOLEAN : StopW2(c, ok)
  \/ \E c \in BagToSet(rcalls), ok \in BOOLEAN : StopW3(c, ok)

SpecSession == InitRadio /\ [][NextSession]_vars

\* the server with every asset encoded and every encoded file on disk
InitPlay == InitRadio /\ disk = F

\* the steps of playback: spawnFFmpegForTrack, the subprocess, its handlers, the timers
PlaySteps ==
  \/ TimerFire
  \/ \E c \in BagToSet(rcalls) : (c.track \in disk => spawned < MaxSpawns) /\ SpawnExists(c)
  \/ \E c \in BagToSet(rcalls) : SpawnSaved(c)
  \/ \E c \in BagToSet(rcalls) : HteDone(c)
  \/ \E p \in procs, how \in {"natural", "abnormal", "sigterm"} : ProcExit(p, how)

\* one start whose handshake succeeds
HappyStart ==
  \/ cmds = 0 /\ Start
  \/ \E c \in BagToSet(rcalls) : StartCreated(c, TRUE)
  \/ \E c \in BagToSet(rcalls) : StartAttached(c, TRUE)
  \/ \E c \in BagToSet(rcalls) : StartJoinResp(c, "joined")
  \/ \E c \in BagToSet(rcalls), pl \in Playlists : StartRefresh(c, pl)
  \/ \E c \in BagToSet(rcalls) : StartSaved(c)

\* playback after one start: tracks end or fail, encoded files disappear, the operator
\* skips; the sequencer stops itself
NextPlay ==
  \/ HappyStart
  \/ cmds > 0 /\ cmds < MaxCmds /\ Skip
  \/ \E f \in F : DeleteEncoded(f)
  \/ PlaySteps
  \/ \E c \in BagToSet(rcalls) : CleanupLeaveDone(c)
  \/ \E c \in BagToSet(rcalls) : CleanupDestroyDone(c)
  \/ \E c \in BagToSet(rcalls) : StopW1(c, TRUE)
  \/ \E c \in BagToSet(rcalls) : StopW2(c, TRUE)

SpecPlay == InitPlay /\ [][NextPlay]_vars

\* the steps of a stop() invocation, with writes that succeed or fail
StopSteps ==
  \/ \E c \in BagToSet(rcalls) : c.kind = "stop" /\ CleanupLeaveDone(c)
  \/ \E c \in BagToSet(rcalls) : c.kind = "stop" /\ CleanupDestroyDone(c)
  \/ \E c \in BagToSet(rcalls), ok \in BOOLEAN : StopW1(c, ok)
  \/ \E c \in BagToSet(rcalls), ok \in BOOLEAN : StopW2(c, ok)
  \/ \E c \in BagToSet(rcalls), ok \in BOOLEAN : StopW3(c, ok)

\* stop commands during playback after one start; the tracks play through or end by the
\* signal they are sent
NextStop ==
  \/ HappyStart
  \/ cmds > 0 /\ cmds < MaxCmds /\ Stop
  \/ TimerFire
  \/ \E c \in BagToSet(rcalls) : (c.track \in disk => spawned < MaxSpawns) /\ SpawnExists(c)
  \/ \E c \in BagToSet(rcalls) : SpawnSaved(c)
  \/ \E p \in procs, how \in {"natural", "sigterm"} : ProcExit(p, how)
  \/ StopSteps

\* every await of stop() settles: the store write resolves or rejects, the gateway requests
\* of the teardown have a 5 s timeout
SpecStop == InitPlay /\ [][NextStop]_vars /\ WF_vars(StopSteps)

\* the steps of a playback in which every track fails each time it is taken: the encoded
\* files are deleted after the playlist was built, and the check of spawnFFmpegForTrack
\* finds the file of its track missing
PlayFails ==
  \/ HappyStart
  \/ \E f \in F : DeleteEncoded(f)
  \/ TimerFire
  \/ \E c \in BagToSet(rcalls) : c.track \notin disk /\ SpawnExists(c)
  \/ \E c \in BagToSet(rcalls) : HteDone(c)
  \/ StopSteps

\* the operator may stop the sequencer
NextFailing ==
  \/ PlayFails
  \/ cmds > 0 /\ cmds < MaxCmds /\ Stop

\* timers fire and the awaits of the store and of the gateway settle; no command is owed
SpecFailing == InitPlay /\ [][NextFailing]_vars /\ WF_vars(PlayFails)

\* the keepalive of a session between one start and the stops that follow it; the request
\* has a 5 s timeout and the interval is 30 s, so one keepalive is in flight at a time
NextKeepalive ==
  \/ HappyStart
  \/ cmds > 0 /\ cmds < MaxCmds /\ Stop
  \/ StopSteps
  \/ (\A c \in BagToSet(rcalls) : c.kind # "keepalive") /\ KeepaliveTick
  \/ \E c \in BagToSet(rcalls), r \in KeepaliveAnswers :
       /\ r # "ack" => janus.keepaliveFailureCount < MaxKeepaliveCount
       /\ KeepaliveResp(c, r)

SpecKeepalive == InitPlay /\ [][NextKeepalive]_vars

\* overlapping start and stop commands with the keepalive of the sessions they open; one
\* keepalive request is in flight at a time
NextTeardown ==
  \/ NextSession
  \/ (\A c \in BagToSet(rcalls) : c.kind # "keepalive") /\ KeepaliveTick
  \/ \E c \in BagToSet(rcalls), r \in KeepaliveAnswers :
       /\ r # "ack" => janus.keepaliveFailureCount < MaxKeepaliveCount
       /\ KeepaliveResp(c, r)

SpecTeardown == InitRadio /\ [][NextTeardown]_vars

\* an asset whose encode failed
FailedFile == [NewFile EXCEPT !.status = "failed", !.error = "encode"]

\* a catalog of encoded and failed assets, some encoded files missing from the disk, a
\* playlist left by an earlier refresh at any index
InitPlaylist ==
  /\ files \in [F -> {EncodedFile, FailedFile}]
  /\ jobs = <<>>
  /\ jobHistory = <<>>
  /\ calls = EmptyBag
  /\ recList = <<>>
  /\ recIdx = 1
  /\ recPc = "done"
  /\ out = <<>>
  /\ ops = 0
  /\ restarts = 0
  /\ NoMonitor
  /\ isRunning = FALSE
  /\ isStopping = FALSE
  /\ ffmpegProcess = 0
  /\ currentTrack = "none"
  /\ playlist \in Playlists
  /\ currentIndex \in 0..Len(playlist)
  /\ skipCount = 0
  /\ rtpTarget = 0
  /\ radioStatus = "stopped"
  /\ janus = NoSession
  /\ procs = {}
  /\ timers = 0
  /\ rcalls = EmptyBag
  /\ failStreak = 0
  /\ cmds = 0
  /\ spawned = 0
  /\ sessions = 0
  /\ disk \in SUBSET F

\* the lists updatePlaylist is handed
RefLists == UNION {[1..n -> Ids] : n \in 0..MaxRefs}

\* updatePlaylist invoked again and again, each invocation after the one before has returned
NextPlaylist ==
  \/ rcalls = EmptyBag /\ (\E refs \in RefLists : UpdatePlaylist(refs))
  \/ \E c \in BagToSet(rcalls) : UpItem(c)
  \/ \E c \in BagToSet(rcalls), ok \in BOOLEAN : UpSaved(c, ok)

SpecPlaylist == InitPlaylist /\ [][NextPlaylist]_vars

\* FileImportService with the watchers of W started on empty directories
\* (startIncomingMonitoring 317-352, startReencodedMonitoring 358-393), n timers of
\* triggerAutoEncoding pending, auto-encoding enabled or not; no encode, no radio
Watching(W, n, enabled) ==
  /\ jobs = <<>>
  /\ jobHistory = <<>>
  /\ calls = EmptyBag
  /\ recList = <<>>
  /\ recIdx = 1
  /\ recPc = "done"
  /\ out = <<>>
  /\ ops = 0
  /\ restarts = 0
  /\ InitRadioVars
  /\ dirs = [d \in D |-> <<>>]
  /\ mon = [tick |-> [d \in D |-> IF d \in W THEN "timer" ELSE "off"],
            lastCount |-> [d \in D |-> 0], recent |-> [d \in D |-> FALSE], reset |-> "none",
            deferred |-> [d \in D |-> 0], auto |-> n, autoEncodingEnabled |-> enabled,
            enabled |-> [d \in D |-> d \in W],
            monitoring |-> [d \in D |-> d \in W], intervals |-> DefaultIntervals]
  /\ scans = EmptyBag

\* an empty catalog and both watchers; files appear in the two directories and the full
\* scans of the watchers import them
InitImport == files = [f \in F |-> AbsentFile] /\ disk = {} /\ Watching(D, 0, FALSE)

NextImport ==
  \/ \E f \in F, d \in D : Drop(f, d)
  \/ \E d \in D : Tick(d)
  \/ \E c \in BagToSet(scans) : FullList(c)
  \/ \E c \in BagToSet(scans) : FullImport(c)
  \/ \E c \in BagToSet(scans) : FullDone(c)

SpecImport == InitImport /\ [][NextImport]_vars

\* an empty catalog and the watcher of the incoming directory; files appear in it while
\* the operator has imported assets encoded, one encode at a time
InitDefer == files = [f \in F |-> AbsentFile] /\ disk = {} /\ Watching({"incoming"}, 0, FALSE)

NextDefer ==
  \/ \E f \in F : Drop(f, "incoming")
  \/ Tick("incoming")
  \/ \E c \in BagToSet(scans) : LightDone(c)
  \/ ActivityReset
  \/ DeferredFire("incoming")
  \/ \E c \in BagToSet(scans) : FullList(c)
  \/ \E c \in BagToSet(scans) : FullImport(c)
  \/ \E c \in BagToSet(scans) : FullDone(c)
  \/ \E f \in F : ops < MaxOps /\ calls = EmptyBag /\ files[f].status # "absent" /\ EncodeFile(f)
  \/ EncodeSteps

SpecDefer == InitDefer /\ [][NextDefer]_vars

\* the stored configurations of the two monitoring intervals: not set, below the minimum,
\* above it
ImportConfigs ==
  [monitoringInterval : {0, 30000, 300000}, reencodedMonitoringInterval : {0, 30000, 600000}]

\* an asset whose encode is running, with its job record
EncodingFile == [NewFile EXCEPT !.status = "encoding"]

\* the service after initialize for any stored configuration, each watcher on or off with
\* its activity flag set or not, and an encode running or none
InitInterval ==
  /\ \E enc \in BOOLEAN :
       /\ files = [f \in F |-> IF enc /\ f = FileOrder[1] THEN EncodingFile ELSE NewFile]
       /\ jobs = IF enc THEN AddActiveJob(<<>>, FileOrder[1]) ELSE <<>>
       /\ calls = IF enc THEN One(Call("enc", FileOrder[1], "encoding", TRUE)) ELSE EmptyBag
  /\ jobHistory = <<>>
  /\ recList = <<>>
  /\ recIdx = 1
  /\ recPc = "done"
  /\ out = <<>>
  /\ ops = 0
  /\ restarts = 0
  /\ InitRadioVars
  /\ disk = {}
  /\ dirs = [d \in D |-> <<>>]
  /\ \E W \in SUBSET D, R \in SUBSET D, cfg \in ImportConfigs :
       mon = [tick |-> [d \in D |-> IF d \in W THEN "timer" ELSE "off"],
              lastCount |-> [d \in D |-> 0], recent |-> [d \in D |-> d \in R /\ d \in W],
              reset |-> "none", deferred |-> [d \in D |-> 0], auto |-> 0,
              autoEncodingEnabled |-> FALSE, enabled |-> [d \in D |-> d \in W],
            monitoring |-> [d \in D |-> d \in W],
              intervals |-> ConfiguredIntervals(cfg)]
  /\ scans = EmptyBag

NextInterval == \E d \in D : AdaptiveInterval(d)

SpecInterval == InitInterval /\ [][NextInterval]_vars

\* both watchers on empty directories while an encode runs: every scan of the loops is a
\* lightweight one
InitActivity ==
  /\ files = [f \in F |-> IF f = FileOrder[1] THEN EncodingFile ELSE AbsentFile]
  /\ disk = {}
  /\ jobs = AddActiveJob(<<>>, FileOrder[1])
  /\ calls = One(Call("enc", FileOrder[1], "encoding", TRUE))
  /\ jobHistory = <<>>
  /\ recList = <<>>
  /\ recIdx = 1
  /\ recPc = "done"
  /\ out = <<>>
  /\ ops = 0
  /\ restarts = 0
  /\ InitRadioVars
  /\ dirs = [d \in D |-> <<>>]
  /\ mon = [tick |-> [d \in D |-> "timer"], lastCount |-> [d \in D |-> 0],
            recent |-> [d \in D |-> FALSE], reset |-> "none",
            deferred |-> [d \in D |-> 0], auto |-> 0, autoEncodingEnabled |-> FALSE,
            enabled |-> [d \in D |-> TRUE],
            monitoring |-> [d \in D |-> TRUE], intervals |-> DefaultIntervals]
  /\ scans = EmptyBag

\* files appear in the two directories during a long encode
NextActivity ==
  \/ \E f \in F, d \in D : Drop(f, d)
  \/ \E d \in D : Tick(d)
  \/ \E c \in BagToSet(scans) : LightDone(c)
  \/ ActivityReset
  \/ \E d \in D : DeferredFire(d)

\* the timers fire and the reads of the directories resolve
SpecActivity ==
  /\ InitActivity /\ [][NextActivity]_vars
  /\ WF_vars(ActivityReset)
  /\ \A d \in D : /\ WF_vars(Tick(d))
                   /\ WF_vars(DeferredFire(d))
                   /\ WF_vars(\E c \in BagToSet(scans) : c.dir = d /\ LightDone(c))

\* a catalog of uploaded and of encoded assets as a full scan of the incoming directory has
\* left it, the timer of triggerAutoEncoding pending; the operator triggers batch encodes
InitTrigger ==
  /\ files \in [F -> {NewFile, EncodedFile}]
  /\ disk = {}
  /\ Watching({}, 1, TRUE)

\* every subprocess of this environment exits with code 0 and leaves an output file
NextTrigger ==
  \/ TriggerAutoEncoding
  \/ ops < MaxBatches /\ TriggerBatchEncoding
  \/ \E c \in BagToSet(calls) : EncGetFile(c)
  \/ \E c \in BagToSet(calls) : EncPathExists(c)
  \/ \E c \in BagToSet(calls) : EncAddJob(c)
  \/ \E c \in BagToSet(calls) : EncSpawn(c)
  \/ \E c \in BagToSet(calls) : ProcSpawned(c)
  \/ \E c \in BagToSet(calls) : ProcCloseZero(c, FALSE)
  \/ \E c \in BagToSet(calls) : EncResolve(c)
  \/ \E c \in BagToSet(calls) : EncComplete1(c)
  \/ \E c \in BagToSet(calls) : EncComplete2(c)

SpecTrigger == InitTrigger /\ [][NextTrigger]_vars

\* the server with one encoded and one uploaded asset, both watchers started; the radio is
\* started, the operator has the uploaded asset encoded, and the process is told to shut
\* down at any moment; after process.exit nothing of the server runs
InitShutdown ==
  /\ files = [f \in F |-> IF f = "f1" THEN EncodedFile ELSE NewFile]
  /\ disk = {"f1"}
  /\ Watching(D, 0, FALSE)

NextShutdown ==
  \/ ~Exited /\ HappyStart
  \/ ~Exited /\ TimerFire
  \/ \E c \in BagToSet(rcalls) : ~Exited /\ spawned < MaxSpawns /\ SpawnExists(c)
  \/ \E c \in BagToSet(rcalls) : ~Exited /\ SpawnSaved(c)
  \/ \E p \in procs, how \in {"natural", "sigterm"} : ~Exited /\ ProcExit(p, how)
  \/ ~Exited /\ calls = EmptyBag /\ files["f2"].status = "uploaded" /\ EncodeFile("f2")
  \/ \E c \in BagToSet(calls) : ~Exited /\ EncGetFile(c)
  \/ \E c \in BagToSet(calls) : ~Exited /\ EncPathExists(c)
  \/ \E c \in BagToSet(calls) : ~Exited /\ EncAddJob(c)
  \/ \E c \in BagToSet(calls) : ~Exited /\ EncSpawn(c)
  \/ \E c \in BagToSet(calls) : ~Exited /\ ProcSpawned(c)
  \/ \E c \in BagToSet(calls) : ~Exited /\ ProcCloseZero(c, FALSE)
  \/ \E c \in BagToSet(calls) : ~Exited /\ EncResolve(c)
  \/ \E c \in BagToSet(calls) : ~Exited /\ EncComplete1(c)
  \/ \E c \in BagToSet(calls) : ~Exited /\ EncComplete2(c)
  \/ \E c \in BagToSet(calls) : ~Exited /\ CancelStep1(c)
  \/ \E c \in BagToSet(calls) : ~Exited /\ CancelStep2(c)
  \/ \E c \in BagToSet(calls) : ~Exited /\ ProcDie(c)
  \/ GracefulShutdown
  \/ \E c \in BagToSet(rcalls) : CleanupRadio(c)
  \/ \E c \in BagToSet(rcalls) : CleanupKillWaited(c)
  \/ \E c \in BagToSet(rcalls) : c.kind = "shutdown" /\ CleanupLeaveDone(c)
  \/ \E c \in BagToSet(rcalls) : CleanupDestroyed(c)
  \/ \E x \in BagToSet(calls), c \in BagToSet(rcalls) : CleanupCancelled(x, c)
  \/ \E c \in BagToSet(rcalls) : ShutdownExit(c)

\* the job manager under its three commands with the progress output of the subprocesses
NextCancel ==
  \/ NextEnc
  \/ \E c \in BagToSet(calls) : ProcStderr(c)
  \/ \E c \in BagToSet(calls) : ProgressSaved(c)
  \/ \E c \in BagToSet(calls) : ProgressEmit(c)

SpecCancel == InitEnc /\ [][NextCancel]_vars

SpecShutdown == InitShutdown /\ [][NextShutdown]_vars

\* an empty catalog to which callers add files and in which they look paths up
InitCatalog ==
  /\ files = <<>>
  /\ disk = {}
  /\ Watching({}, 0, FALSE)

NextCatalog ==
  \/ \E fd \in FileData : AddFile(fd)
  \/ \E c \in BagToSet(calls) : AddFileSaved(c)
  \/ \E path \in Paths : GetFileByPath(path)

SpecCatalog == InitCatalog /\ [][NextCatalog]_vars

\* an empty catalog and both watchers with no encode running, the 30 s timer of an earlier
\* lightweight scan of the incoming directory pending; files appear in the directories,
\* the loops and the timer start full scans and the operator starts a scan by hand
InitScan ==
  /\ files = <<>>
  /\ disk = {}
  /\ jobs = <<>>
  /\ jobHistory = <<>>
  /\ calls = EmptyBag
  /\ recList = <<>>
  /\ recIdx = 1
  /\ recPc = "done"
  /\ out = <<>>
  /\ ops = 0
  /\ restarts = 0
  /\ InitRadioVars
  /\ dirs = [d \in D |-> <<>>]
  /\ mon = [tick |-> [d \in D |-> "timer"], lastCount |-> [d \in D |-> 0],
            recent |-> [d \in D |-> d = "incoming"], reset |-> "incoming",
            deferred |-> [d \in D |-> IF d = "incoming" THEN 1 ELSE 0], auto |-> 0,
            autoEncodingEnabled |-> FALSE,
            enabled |-> [d \in D |-> TRUE],
            monitoring |-> [d \in D |-> TRUE], intervals |-> DefaultIntervals]
  /\ scans = EmptyBag

NextScan ==
  \/ \E f \in F, d \in D : Drop(f, d)
  \/ \E d \in D : Tick(d)
  \/ \E d \in D : DeferredFire(d)
  \/ \E d \in D : ops < MaxBatches /\ ManualScan(d)
  \/ \E c \in BagToSet(scans) : FullList(c)
  \/ \E c \in BagToSet(scans) : ScanImport(c)
  \/ \E c \in BagToSet(scans), ok \in BOOLEAN : ScanSaved(c, ok)
  \/ \E c \in BagToSet(scans) : FullDone(c)

SpecScan == InitScan /\ [][NextScan]_vars

\* both watchers as initialize has started them, their loops being the records of scans
\* with the initial timers pending; the operator stops and starts watchers one call after the other, as
\* updateConfig does, and the service is cleaned up
InitLoop ==
  /\ files = [f \in F |-> AbsentFile]
  /\ disk = {}
  /\ jobs = <<>>
  /\ jobHistory = <<>>
  /\ calls = EmptyBag
  /\ recList = <<>>
  /\ recIdx = 1
  /\ recPc = "done"
  /\ out = <<>>
  /\ ops = 0
  /\ restarts = 0
  /\ InitRadioVars
  /\ dirs = [d \in D |-> <<>>]
  /\ mon = [tick |-> [d \in D |-> "off"], lastCount |-> [d \in D |-> 0],
            recent |-> [d \in D |-> FALSE], reset |-> "none",
            deferred |-> [d \in D |-> 0], auto |-> 0, autoEncodingEnabled |-> FALSE,
            enabled |-> [d \in D |-> TRUE], monitoring |-> [d \in D |-> TRUE],
            intervals |-> DefaultIntervals]
  /\ scans = One(LoopRecord("incoming", "loose", "timer"))
               (+) One(LoopRecord("reencoded", "loose", "timer"))

NextLoop ==
  \/ \E d \in D : ops < MaxOps /\ StartMonitoring(d)
  \/ \E d \in D : ops < MaxOps /\ StopMonitoring(d)
  \/ ops < MaxOps /\ Cleanup
  \/ \E c \in BagToSet(scans) : StartBaselined(c)
  \/ \E c \in BagToSet(scans) : LoopFire(c)
  \/ \E c \in BagToSet(scans) : LoopCycleDone(c)

SpecLoop == InitLoop /\ [][NextLoop]_vars

----
(***************************************************************************)
(* Properties of the encoding job manager.                                 *)
(***************************************************************************)
Range(sq) == {sq[i] : i \in 1..Len(sq)}

\* C1: in every reachable state the number of running encode subprocesses, and the number
\* of entries of the in-memory activeJobs map, is at most maxConcurrent.
C1_RunningWithinCeiling ==
  /\ RunningCount(calls) <= maxConcurrent
  /\ MapSize(calls) <= maxConcurrent

\* C2: at any time at most one running encode subprocess exists for a given asset id.
C2_OneProcessPerAsset == \A f \in F : RunningCountFor(calls, f) <= 1

\* C4: for every fileId at most one job record references it, in the persisted active-job
\* list and in the in-memory job map.
C4_OneJobPerFile ==
  \A f \in F :
    /\ Cardinality({i \in 1..Len(jobs) : jobs[i].fileId = f}) <= 1
    /\ SumCopies(calls, {c \in BagToSet(calls) : c.file = f /\ c.inMap}) <= 1

\* C4 witness: addActiveJob has run twice for one file (two encodeFile invocations of the
\* file are past it) and the list holds its job
C4_Witness ==
  \E f \in F :
    /\ JobIndex(jobs, f) # 0
    /\ SumCopies(calls, {c \in BagToSet(calls) :
                           c.kind = "enc" /\ c.file = f /\ c.pc \in {"addJob", "spawning", "encoding"}}) >= 2

\* C9: a cancelEncoding(f) invoked while the Map holds no job of f returns false and leaves
\* the asset records, the persisted job list, the job history and the in-memory jobs as they
\* were, and emits no event.
C9_CancelWithoutJob ==
  [][\A f \in F :
       (CancelEncoding(f) /\ ~HasJob(calls, f)) =>
          /\ out' = <<Ret("cancelEncoding", f, FALSE)>>
          /\ files' = files
          /\ jobs' = jobs
          /\ jobHistory' = jobHistory
          /\ calls' = calls]_vars

\* C9 witness: cancelEncoding returned false for an asset whose job record is persisted
\* (the encode is between addActiveJob and its spawn) and whose status is 'encoding'
C9_Witness ==
  \E f \in F :
    /\ out = <<Ret("cancelEncoding", f, FALSE)>>
    /\ JobIndex(jobs, f) # 0
    /\ files[f].status = "encoding"

----
(***************************************************************************)
(* Properties of the sequencer and the protocol client.                    *)
(***************************************************************************)
\* the streaming subprocesses that are alive and were not sent a signal
LiveStreams == {p \in procs : ~p.term}

\* C3: at any time the sequencer has at most one live streaming subprocess.
C3_OneStreamingProcess == Cardinality(LiveStreams) <= 1

\* C5: five track failures in a row stop playback, so that a sixth failure in a row never
\* happens while the sequencer plays.
C5_FiveFailuresStop == failStreak <= maxConsecutiveSkips

\* C6: a start() invoked while the sequencer is running returns {success: false}, sends no
\* request and adds no invocation that would send one, and leaves the session identifiers,
\* the RTP details and the destination as they were.
C6_StartWhileRunning ==
  [][(isRunning /\ Start) =>
        /\ out' = <<Ret("start", "running", FALSE)>>
        /\ rcalls' = rcalls
        /\ janus' = janus
        /\ rtpTarget' = rtpTarget
        /\ sessions' = sessions]_vars

\* C6 witness: start() was refused while the sequencer runs on an established session
C6_Witness ==
  /\ out = <<Ret("start", "running", FALSE)>>
  /\ isRunning
  /\ janus.sessionId # 0 /\ janus.handleId # 0 /\ janus.participantId # 0

\* the requests a cleanup attempts when it finds the instance holding h
Attempts(h) ==
  IF h = "joined" THEN {"leave", "destroy"}
  ELSE IF h = "session" THEN {"destroy"}
  ELSE {}

\* the cleanups of a start() whose join event did not arrive in time, as the latest step
\* let them out
TimeoutCleanups ==
  {i \in DOMAIN out : out[i][1] = "cleanup" /\ out[i][2] = "start" /\ out[i][3] = "timeout"}

\* C7 (as the code has it): when the join is acknowledged and no matching event arrives in
\* time, start() returns a failure for the timeout after a cleanup that has attempted
\* destroy if a session id and a handle id were held, attempted leave only if a participant
\* id was held too, and cleared the identifiers afterwards.
C7_TimeoutCleanup ==
  \A i \in TimeoutCleanups :
    /\ out[i][5] = Attempts(out[i][4])
    /\ Ret("start", "timeout", FALSE) \in Range(out)
    /\ janus.sessionId = 0 /\ janus.handleId = 0 /\ janus.participantId = 0

\* C7 witness: a start() timed out on a session that was not joined; its cleanup attempted
\* destroy and no leave
C7_Witness ==
  \E i \in TimeoutCleanups : out[i][4] = "session" /\ out[i][5] = {"destroy"}

\* C7 as stated: the cleanup of a start() that timed out has attempted both leave and destroy.
C7_LeaveAndDestroy ==
  \A i \in TimeoutCleanups : out[i][5] = {"leave", "destroy"}

----
(***************************************************************************)
(* Properties of the recovery, the keepalive and the playlist.             *)
(***************************************************************************)
\* the assets with status 'encoding' that no encodeFile invocation is working on
StuckEncoding ==
  {f \in F : files[f].status = "encoding" /\ \A c \in BagToSet(calls) : c.file # f}

\* C11: once the startup recovery of a restart has ended, no asset has status 'encoding'
\* without an encode of it under way; an encode interrupted by the crash has been reset.
C11_NoEncodingAfterRecovery == (restarts > 0 /\ recPc = "done") => StuckEncoding = {}

\* C12: a keepalive that fails (transport error or an answer that is no ack) adds one to
\* the failure counter and leaves the session id, the handle id, the participant id, the
\* RTP details, the destination and the keepalive timer as they were, and starts no teardown
\* and sends no request, however many failures came before; an ack sets the counter to 0.
C12_KeepaliveNeverTearsDown ==
  [][\A c \in BagToSet(rcalls), r \in KeepaliveAnswers :
       KeepaliveResp(c, r) =>
         /\ janus' = [janus EXCEPT !.keepaliveFailureCount = IF r = "ack" THEN 0 ELSE @ + 1]
         /\ rtpTarget' = rtpTarget
         /\ isRunning' = isRunning /\ isStopping' = isStopping
         /\ \A d \in BagToSet(rcalls') : d \in BagToSet(rcalls)
         /\ \A i \in DOMAIN out' : out'[i][1] # "request"]_vars

\* C12 witness: more keepalives have failed in a row than the threshold, and the playing
\* sequencer still holds its session, its destination and its keepalive timer
C12_Witness ==
  /\ janus.keepaliveFailureCount > maxKeepaliveFailures
  /\ janus.sessionId # 0 /\ janus.handleId # 0 /\ janus.participantId # 0
  /\ janus.keepaliveTimer /\ rtpTarget # 0 /\ isRunning

\* the ids that reference a 'completed' asset whose encoded file is on disk
PlayableRef(id) == id \in F /\ files[id].status = "completed" /\ id \in disk

\* C13: when updatePlaylist(refs) has assigned the playlist, the playlist is exactly the
\* subsequence of refs, in the given order, of the ids that reference a 'completed' asset
\* with its encoded file on disk, and currentIndex is 0.
C13_PlaylistIsValidSubsequence ==
  \A c \in BagToSet(rcalls) :
    (c.kind = "update" /\ c.pc = "save") =>
      /\ playlist = SelectSeq(c.refs, PlayableRef)
      /\ currentIndex = 0

\* C13 witness: a list of three entries, one of them referencing a failed asset, has
\* yielded a playlist of two entries
C13_Witness ==
  \E c \in BagToSet(rcalls) :
    /\ c.kind = "update" /\ c.pc = "save"
    /\ Len(c.refs) = 3 /\ Len(playlist) = 2
    /\ \E i \in 1..3 : c.refs[i] \in F /\ files[c.refs[i]].status = "failed"

----
(***************************************************************************)
(* Properties of the import and of the encode triggers.                    *)
(***************************************************************************)
\* the files of a directory
InDir(d) == {dirs[d][i] : i \in 1..Len(dirs[d])}

\* C14: a file that a full scan registers from the incoming directory gets status
\* 'uploaded' and progress 0; one registered from the reencoded directory gets status
\* 'completed', progress 100 and its source path as encodedPath.
C14_ImportedStatus ==
  [][\A f \in F :
       (files[f].status = "absent" /\ files'[f].status # "absent") =>
         IF f \in InDir("reencoded")
         THEN files'[f].status = "completed" /\ files'[f].progress = 100 /\ files'[f].encoded
         ELSE files'[f].status = "uploaded" /\ files'[f].progress = 0]_vars

\* C15: the full scan of a detection is never dropped: whenever a 30 s timer set by a
\* lightweight check is used up, a full scan starts (the timer's scan waits for the encode
\* to end).
C15_DeferredScanRuns ==
  [][\A d \in D :
       mon'.deferred[d] < mon.deferred[d] =>
         BagCardinality(scans') = BagCardinality(scans) + 1]_vars

\* the smaller of two numbers, 0 at least
FreeOf(a, b) == IF a < 0 \/ b < 0 THEN 0 ELSE IF a < b THEN a ELSE b

\* C16: a trigger that finds r jobs in the activeJobs Map and u uploaded assets starts
\* exactly min(maxConcurrent - r, u) encodes.
C16_TriggerFillsFreeSlots ==
  [][(TriggerAutoEncoding \/ TriggerBatchEncoding) =>
       BagCardinality(calls') - BagCardinality(calls) =
         FreeOf(maxConcurrent - MapSize(calls), Cardinality(Uploaded(files)))]_vars

\* C17: once the shutdown sequence has ended (process.exit), no subprocess is left
\* running: every streaming subprocess and every transcode subprocess that still exists
\* has been sent SIGTERM.
C17_NoSubprocessAfterShutdown ==
  Exited =>
    /\ \A p \in procs : p.term
    /\ \A c \in BagToSet(calls) : ~(c.kind = "enc" /\ c.pc \in {"spawning", "encoding"})

\* C18: when addFile returns the record it stored for a path that no earlier record had,
\* getFileByPath of that path finds the record with the id addFile returned.
C18_AddThenFindByPath ==
  [][\A c \in BagToSet(calls) :
       (AddFileSaved(c) /\ c.fresh) => FindByPath(files', c.path) = c.id]_vars

\* a lookup has returned the id of a record that is not the first of the catalog
C18_Witness ==
  /\ Len(files) >= 2
  /\ files[2].originalPath # files[1].originalPath
  /\ out = <<Ret("getFileByPath", files[2].originalPath, files[2].id)>>

\* the newest record of the job history that belongs to file f has status st
NewestInHistory(hist, f, st) ==
  /\ \E i \in 1..Len(hist) : hist[i].fileId = f
  /\ LET i == CHOOSE k \in 1..Len(hist) :
                 hist[k].fileId = f /\ \A j \in 1..(k-1) : hist[j].fileId # f
     IN  hist[i].status = st

\* C19: an encode ends in one terminal outcome.  When encodeFile emits encoding-completed
\* the asset is 'completed' with progress 100 and its encoded path, when it emits
\* encoding-failed the asset is 'failed' with its error; in both cases no job of the asset
\* is in the active list and the newest record of the asset in the job history has the
\* matching status.
C19_OneTerminalOutcome ==
  [][\A c \in BagToSet(calls) :
       /\ EncComplete2(c) =>
            /\ files'[c.file].status = "completed"
            /\ files'[c.file].progress = 100
            /\ files'[c.file].encoded
            /\ JobIndex(jobs', c.file) = 0
            /\ NewestInHistory(jobHistory', c.file, "completed")
       /\ (EncCatch2(c) /\ files[c.file].error = "proc") =>
            /\ files'[c.file].status = "failed"
            /\ JobIndex(jobs', c.file) = 0
            /\ NewestInHistory(jobHistory', c.file, "failed")]_vars

\* C20: when cancelEncoding returns true the asset is 'uploaded' with progress 0 and the
\* cancellation note, no job of the asset is in the active list and the newest record of
\* the asset in the history is 'cancelled'; and once it has returned, no event of the
\* cancelled subprocess (its exit, its stderr output) changes the status or the progress of
\* the asset.
C20_CancelIsFinal ==
  [][\A c \in BagToSet(calls) :
       /\ CancelStep3(c) =>
            /\ files'[c.file].status = "uploaded"
            /\ files'[c.file].progress = 0
            /\ files'[c.file].error = "cancelled"
            /\ JobIndex(jobs', c.file) = 0
            /\ NewestInHistory(jobHistory', c.file, "cancelled")
       /\ (/\ c.pc = "cancelled"
           /\ \A x \in BagToSet(calls) : ~(x.kind = "cancel" /\ x.file = c.file)
           /\ (ProcStderr(c) \/ ProcDie(c))) =>
            /\ files'[c.file].status = files[c.file].status
            /\ files'[c.file].progress = files[c.file].progress]_vars

----
(***************************************************************************)
(* Properties of refused commands, of the retry and of the recovery.       *)
(***************************************************************************)
\* C21: an encodeFile that is refused by one of its precondition tests (a job of the
\* asset in the Map, the Map at the ceiling, the asset already completed) leaves the
\* record of the asset as it is.
C21_RefusedEncodeChangesNothing ==
  [][/\ \A f \in F :
          (EncodeFile(f) /\ Rejection(calls, f) # "none") => files'[f] = files[f]
     /\ \A c \in BagToSet(calls) :
          (EncGetFile(c) /\ files[c.file].status = "completed") =>
            files'[c.file] = files[c.file]]_vars

\* the encodeFile invocations of file f that are in flight
EncodeCalls(cs, f) == SumCopies(cs, {c \in BagToSet(cs) : c.kind = "enc" /\ c.file = f})

\* C22: a retryEncoding that finds the asset 'encoding' is refused and changes no asset
\* and starts no encode; any other one adds exactly 1 to retryCount, makes the asset
\* 'uploaded' with progress 0 and no error, and after its writes invokes encodeFile once.
C22_RetryCountsAndReencodes ==
  [][\A c \in BagToSet(calls) :
       /\ RetryStep0(c) =>
            IF files[c.file].status = "encoding"
            THEN /\ files' = files
                 /\ CopiesIn(c, calls') = CopiesIn(c, calls) - 1
                 /\ EncodeCalls(calls', c.file) = EncodeCalls(calls, c.file)
            ELSE /\ files'[c.file].retryCount = files[c.file].retryCount + 1
                 /\ files'[c.file].status = "uploaded"
                 /\ files'[c.file].progress = 0
                 /\ files'[c.file].error = "none"
                 /\ \A g \in F \ {c.file} : files'[g] = files[g]
       /\ RetryStep1(c) =>
            /\ EncodeCalls(calls', c.file) = EncodeCalls(calls, c.file) + 1
            /\ \A g \in F : files'[g].retryCount = files[g].retryCount]_vars

\* a retry of a failed asset has counted and has invoked encodeFile
C22_Witness ==
  \E f \in F :
    /\ files[f].retryCount = 1
    /\ NewestInHistory(jobHistory, f, "failed")
    /\ \E c \in BagToSet(calls) : c.kind = "enc" /\ c.file = f /\ c.pc = "getFile"

\* the encodeFile invocations that have set their asset to 'encoding' (157-162) and
\* have not settled it since
Accepted(cs, f) ==
  {c \in BagToSet(cs) : c.kind = "enc" /\ c.file = f
                        /\ c.pc \in {"updEncoding", "addJob", "spawning", "encoding"}}

\* C23: no encodeFile interleaves with the recovery pass: an iteration of the recovery
\* never resets to 'uploaded' an asset that an encodeFile invocation accepted since the
\* start of the process has set to 'encoding'.
C23_RecoveryBeforeWork ==
  [][RecoveryReset => Accepted(calls, recList[recIdx]) = {}]_vars

----
(***************************************************************************)
(* Properties of a start that fails.                                       *)
(***************************************************************************)
\* the reasons establishSession rejects with (part_005 176-185)
EstablishFailures == {"create", "attach", "join", "timeout"}

\* the steps of the start invocation c in which establishSession fails or, having failed,
\* tears down: the request that fails, then the requests of the cleanup
FailingSessionStep(c) ==
  \/ StartCreated(c, FALSE)
  \/ StartAttached(c, FALSE)
  \/ StartJoinResp(c, "error")
  \/ \E r \in {"error", "timeout"} : StartPoll(c, r)
  \/ c.kind = "start" /\ c.why \in EstablishFailures /\ CleanupLeaveDone(c)
  \/ c.kind = "start" /\ c.why \in EstablishFailures /\ CleanupDestroyDone(c)

\* start() returns {success: false} for a failed establishSession in this step
SessionFailureReturned(o) ==
  \E i \in DOMAIN o : \E why \in EstablishFailures : o[i] = Ret("start", why, FALSE)

\* C24: a start() whose session establishment fails changes no sequencer state in any of
\* its steps (running and stopping flags, playlist, index, skip counter, destination,
\* persisted status), ends by returning failure, and at its return the instance holds no
\* session, handle or participant identifier.
C24_FailedSessionChangesNothing ==
  [][\A c \in BagToSet(rcalls) :
       FailingSessionStep(c) =>
         /\ UNCHANGED <<isRunning, isStopping, playlist, currentIndex, skipCount, rtpTarget,
                        radioStatus, ffmpegProcess, procs, timers>>
         /\ \/ SessionFailureReturned(out')
            \/ \E x \in BagToSet(rcalls') :
                 x.kind = "start" /\ x.why \in EstablishFailures /\ x.pc \in {"leave", "destroy"}
         /\ SessionFailureReturned(out') =>
              janus'.sessionId = 0 /\ janus'.handleId = 0 /\ janus'.participantId = 0]_vars

\* a start whose join was refused has returned failure after a teardown that sent the
\* destroy request for the session it had opened
C24_Witness ==
  /\ \E i \in DOMAIN out : out[i] = Ret("start", "join", FALSE)
  /\ \E i \in DOMAIN out : out[i][1] = "cleanup" /\ out[i][5] = {"destroy"}
  /\ janus.sessionId = 0

\* the cleanups of a start() that found no playable asset, as the latest step let them out
EmptyCleanups ==
  {i \in DOMAIN out : out[i][1] = "cleanup" /\ out[i][2] = "start" /\ out[i][3] = "empty"}

EmptyCatalogStep(c) ==
  \/ StartRefresh(c, <<>>)
  \/ c.kind = "start" /\ c.why = "empty" /\ CleanupLeaveDone(c)
  \/ c.kind = "start" /\ c.why = "empty" /\ CleanupDestroyDone(c)

----
(***************************************************************************)
(* Properties of the playback sequencer.                                   *)
(***************************************************************************)
\* the calls of playNextTrack that are due: the timers that are set (491, 536) and the
\* handleTrackError invocations that set one when their write resolves (535-539)
PendingAdvances(rc, t) ==
  t + SumCopies(rc, {c \in BagToSet(rc) : c.kind = "hte"})

\* C26: while the sequencer runs, the exit of the streaming subprocess of a track causes
\* exactly one advance; an exit with code 0 leaves the skip counter and the asset as they
\* are; an exit with another code and no SIGTERM adds exactly 1 to the skip counter, marks
\* the asset 'failed', emits one radio-track-error and advances once.
C26_OneAdvancePerExit ==
  [][\A p \in procs : \A how \in {"natural", "abnormal"} :
       (ProcExit(p, how) /\ Len(p.handlers) = 1 /\ isRunning /\ ~isStopping) =>
         /\ PendingAdvances(rcalls', timers') = PendingAdvances(rcalls, timers) + 1
         /\ how = "natural" => skipCount' = skipCount /\ files' = files
         /\ how = "abnormal" =>
              /\ skipCount' = skipCount + 1
              /\ files'[p.handlers[1]].status = "failed"
              /\ SumCopies(rcalls', {c \in BagToSet(rcalls') : c.kind = "hte"})
                   = SumCopies(rcalls, {c \in BagToSet(rcalls) : c.kind = "hte"}) + 1]_vars

\* C27: skip() on a sequencer that is not running returns a failure and changes nothing;
\* on a running sequencer it returns success and advances exactly one track: without a
\* subprocess it calls playNextTrack itself, with one it signals it, and the exit of the
\* signalled subprocess then causes exactly one advance, the skipped asset is not marked
\* failed and the skip counter is not incremented.
C27_SkipAdvancesOnce ==
  [][/\ (Skip /\ ~isRunning) =>
          /\ out' = <<Ret("skip", "notrunning", FALSE)>>
          /\ UNCHANGED <<files, isRunning, isStopping, ffmpegProcess, currentTrack, playlist,
                         currentIndex, skipCount, rtpTarget, radioStatus, janus, procs, timers,
                         rcalls>>
     /\ (Skip /\ isRunning /\ ffmpegProcess # 0) =>
          /\ out' = <<Ret("skip", "ok", TRUE)>>
          /\ \A p \in procs : p.pid = ffmpegProcess => [p EXCEPT !.term = TRUE] \in procs'
          /\ UNCHANGED <<files, skipCount, currentIndex, timers, rcalls>>
     /\ (Skip /\ isRunning /\ ffmpegProcess = 0) =>
          /\ out' = <<Ret("skip", "ok", TRUE)>>
          /\ UNCHANGED <<files, procs, timers>>
     /\ \A p \in procs :
          (ProcExit(p, "sigterm") /\ isRunning /\ ~isStopping) =>
            /\ PendingAdvances(rcalls', timers') = PendingAdvances(rcalls, timers) + 1
            /\ UNCHANGED <<files, skipCount>>]_vars

\* what a call of playNextTrack with the in-flight invocations rc is to do
Advances(rc) ==
  /\ (isStopping \/ ~isRunning) =>
       /\ rcalls' = rc
       /\ UNCHANGED <<isRunning, isStopping, radioStatus, skipCount, currentIndex, procs>>
  /\ (isRunning /\ ~isStopping /\ (skipCount >= maxConsecutiveSkips \/ Len(playlist) = 0)) =>
       /\ isStopping' /\ ~isRunning' /\ radioStatus' = "stopping"
       /\ rcalls' = rc (+) One(RC("stop", "w1", "none"))
       /\ UNCHANGED <<skipCount, currentIndex>>
  /\ (isRunning /\ ~isStopping /\ skipCount < maxConsecutiveSkips /\ Len(playlist) > 0) =>
       \E i \in 0..(Len(playlist) - 1) :
         /\ currentIndex' = i + 1
         /\ rcalls' = rc (+) One(RC("spawn", "exists", playlist[i + 1]))
         /\ currentIndex >= Len(playlist) => i = 0 /\ skipCount' = 0
         /\ currentIndex < Len(playlist) => i = currentIndex /\ skipCount' = skipCount
         /\ UNCHANGED <<isRunning, isStopping, radioStatus>>

\* C28: every call of playNextTrack (from a timer, from skip() without a subprocess, from
\* start()) does nothing while the sequencer is stopping or not running; calls stop() when
\* the skip counter has reached the ceiling or the playlist is empty; and else takes the
\* track at an index within 0..length-1, wrapping the index to 0 and resetting the skip
\* counter at the end of the playlist.
C28_PlayNextTrackGuards ==
  [][/\ TimerFire => Advances(rcalls)
     /\ (Skip /\ isRunning /\ ffmpegProcess = 0) => Advances(rcalls)
     /\ \A c \in BagToSet(rcalls) : StartSaved(c) => Advances(rcalls (-) One(c))]_vars

\* C28 witness: playNextTrack has wrapped at the end of a playlist of two tracks with a
\* skip counter that was not 0: both tracks were taken once, the second was missing from the
\* disk, and the first is taken again with the counter reset
C28_Witness ==
  /\ Len(playlist) = 2 /\ currentIndex = 1 /\ skipCount = 0 /\ spawned = 1
  /\ files[playlist[2]].status = "failed"
  /\ timers = 0
  /\ \E c \in BagToSet(rcalls) : c.kind = "spawn" /\ c.pc = "exists" /\ c.track = playlist[1]
  /\ \A c \in BagToSet(rcalls) : c.kind = "spawn"

\* C29: when every track fails each time it is played, a running sequencer eventually
\* reaches 'stopped', whatever the length of the playlist.
C29_FailingPlaylistStops ==
  (isRunning /\ ~isStopping) ~> (radioStatus = "stopped")

\* stop() has just returned {success: true}
StopReturned == Ret("stop", "ok", TRUE) \in Range(out)

\* C30: once stop() has returned, no streaming subprocess is live, except one that stop()
\* has signalled and that has yet to exit; also when stop() was invoked while
\* spawnFFmpegForTrack was suspended before its spawn or while a timer for playNextTrack
\* was set.
C30_NoStreamAfterStop ==
  StopReturned => \A p \in procs : p.term

----
(***************************************************************************)
(* Properties of the session of the gateway client.                        *)
(***************************************************************************)
\* a start() or a stop() is in flight
StartOrStopInFlight == \E c \in BagToSet(rcalls) : c.kind \in {"start", "stop"}

\* C31: while the sequencer is running and not stopping, the gateway client holds a joined
\* session (session, handle and participant id set, keepalive timer active) and the
\* sequencer a destination; while it is stopped with no start() or stop() in flight, the
\* client holds no session and no keepalive timer; under overlapping start() and stop().
C31_SessionMatchesSequencer ==
  /\ (isRunning /\ ~isStopping) =>
       /\ Held(janus) = "joined"
       /\ janus.keepaliveTimer
       /\ rtpTarget # 0
  /\ (~isRunning /\ ~isStopping /\ ~StartOrStopInFlight) =>
       /\ janus.sessionId = 0 /\ janus.handleId = 0 /\ janus.participantId = 0
       /\ ~janus.keepaliveTimer

\* a JanusService.cleanup has completed in the latest step
CleanupCompleted(o) == \E i \in DOMAIN o : o[i][1] = "cleanup"

\* the steps in which the invocation c calls JanusService.cleanup
CleanupCalled(c) ==
  \/ StartCreated(c, FALSE)
  \/ StartAttached(c, FALSE)
  \/ StartJoinResp(c, "error")
  \/ \E r \in {"error", "timeout"} : StartPoll(c, r)
  \/ StartRefresh(c, <<>>)
  \/ StopW1(c, TRUE)

C33_DestroyAfterFailedAttach ==
  \A i \in DOMAIN out :
    (out[i][1] = "cleanup" /\ out[i][2] = "start" /\ out[i][3] = "attach") =>
      "destroy" \in out[i][5]

\* establishSession has returned to the start invocation c in this step
EstablishedBy(c) ==
  CopiesIn([c EXCEPT !.pc = "refresh"], rcalls') > CopiesIn([c EXCEPT !.pc = "refresh"], rcalls)

\* C34: whenever establishSession returns, by an immediate join event or by a polled one,
\* a participant id is set and the destination it returns is not null; a join answer that
\* is not a 'joined' result makes establishSession fail.
C34_EstablishedMeansJoined ==
  [][\A c \in BagToSet(rcalls) :
       (/\ \/ \E r \in JoinResponses : StartJoinResp(c, r)
           \/ \E r \in PollOutcomes : StartPoll(c, r)
        /\ EstablishedBy(c)) =>
         /\ janus'.participantId # 0
         /\ janus'.rtpDetails # 0
         /\ rtpTarget' # 0]_vars

----
(***************************************************************************)
(* Properties of the watchers.                                             *)
(***************************************************************************)
\* C35: for each watcher calculateAdaptiveInterval returns the disabled interval if the
\* watcher is off; otherwise the encoding-active interval if an encode is active;
\* otherwise the high-activity interval if recent activity is flagged; otherwise the
\* normal interval; always one of the four intervals.
C35_IntervalPriority ==
  \A d \in D :
    (out # <<>> /\ out[1][2] = "calculateAdaptiveInterval" /\ out[1][3] = d) =>
      LET v == out[1][4]
          iv == mon.intervals
          on == mon.enabled[d]
          active == MapSize(calls) > 0
      IN  /\ ~on => v = iv.disabled
          /\ (on /\ active) => v = iv.encodingActive
          /\ (on /\ ~active /\ mon.recent[d]) => v = iv.highActivity
          /\ (on /\ ~active /\ ~mon.recent[d]) => v = iv.normal
          /\ v \in {iv.disabled, iv.encodingActive, iv.highActivity, iv.normal}

\* C35 witness: the interval of a watcher that is on, with recent activity flagged, while
\* an encode is active: the encoding-active interval, which differs from the high-activity
\* one
C35_Witness ==
  \E d \in D :
    /\ mon.enabled[d] /\ mon.recent[d] /\ MapSize(calls) > 0
    /\ out = <<Ret("calculateAdaptiveInterval", d, mon.intervals.encodingActive)>>
    /\ mon.intervals.encodingActive # mon.intervals.highActivity

\* C36: the recent-activity flag of each watcher expires: once a lightweight check has set
\* it, it is eventually cleared, also when the other watcher detects activity meanwhile.
C36_ActivityFlagExpires ==
  \A d \in D : mon.recent[d] ~> ~mon.recent[d]

\* C37: a full scan registers a file only when no record of the catalog has its source
\* path.  The catalog never holds two records with one source path, whatever scheduled,
\* deferred and manual scans overlap; every file a scan has gone through has a record; and
\* a scan that comes to a file with a record skips it, adding nothing and counting nothing,
\* so that a second scan of an unchanged directory imports no file.
C37_ScanSkipsRegistered ==
  /\ [](\A i, j \in 1..Len(files) : files[i].originalPath = files[j].originalPath => i = j)
  /\ [](\A c \in BagToSet(scans) : c.kind = "full" /\ c.pc \in {"import", "write"} =>
          \A i \in 1..(c.idx - 1) : FindByPath(files, SourcePath(c.dir, c.list[i])) # 0)
  /\ [][\A c \in BagToSet(scans) :
          ScanImport(c) /\ FindByPath(files, SourcePath(c.dir, c.list[c.idx])) # 0
            => /\ files' = files
               /\ CopiesIn([c EXCEPT !.idx = @ + 1], scans')
                    > CopiesIn([c EXCEPT !.idx = @ + 1], scans)]_vars

\* C37 witness: two scans of one directory overlap; one has imported the only record of
\* the catalog and the other has skipped that file
C37_Witness ==
  /\ Len(files) = 1
  /\ \E c, x \in BagToSet(scans) :
       /\ c.dir = x.dir /\ c.pc = "import" /\ x.pc = "import"
       /\ c.idx > 1 /\ c.imported = 0
       /\ x.idx > 1 /\ x.imported = 1

\* C38: each watcher has at most one scan loop: it never has more than one pending or
\* running cycle, it has exactly one while it is monitoring, and no cycle begins while
\* it is stopped, whether the stop or the cleanup came during the initial delay of a
\* start or while a cycle was in progress.
C38_OneLoopPerWatcher ==
  /\ [](\A d \in D : Loops(d) <= 1 /\ (mon.monitoring[d] => Loops(d) = 1))
  /\ [][\A c \in BagToSet(scans) : LoopFire(c) => mon.monitoring[c.dir]]_vars

\* C39: the sequencer marks an asset 'failed', and increments the skip counter, only in a
\* step in which the encoded file of the track is found missing or a subprocess exits
\* with a failure; a stop(), whatever the point of a spawn it comes at, never does it.
C39_OnlyFailuresMarkFailed ==
  [][(\/ skipCount' > skipCount
      \/ \E f \in F : files'[f].status = "failed" /\ files[f].status # "failed")
       => \/ \E c \in BagToSet(rcalls) : c.kind = "spawn" /\ c.track \notin disk /\ SpawnExists(c)
          \/ \E p \in procs : ProcExit(p, "abnormal")]_vars

\* C40: every mutating operation of the sequencer (start, stop, skip, updatePlaylist,
\* refreshPlaylist, updateConfig) completes with a structured {success} result: none of
\* them ever rejects, also when a persistence write fails inside an error path.
C40_StructuredResults ==
  \A i \in DOMAIN out :
    (/\ out[i][1] = "return"
     /\ out[i][2] \in {"start", "stop", "skip", "updatePlaylist", "refreshPlaylist",
                       "updateConfig"})
      => out[i][3] # "rejected" /\ out[i][4] \in BOOLEAN

====
